---------------------------- MODULE Spec2Model ----------------------------
(***************************************************************************)
(* A model of the simba call gateway (github.com/miretskiy/simba):         *)
(*   internal/ffi   - thin width-specific wrappers around the raw kernels  *)
(*   pkg/intrinsics - lane-width dispatchers                               *)
(*   pkg/algo       - scalar/SIMD threshold dispatchers, CRC32 helpers     *)
(*   combineGeneric - the GF(2) matrix CRC32 combination                   *)
(*                                                                         *)
(* A byte is a number in 0..255 and a buffer a sequence of bytes.  TLC's   *)
(* integers are 32-bit signed, so a uint32 is the pair <<hi, lo>> of its   *)
(* 16-bit halves, and a mask word of an EqU8Masks kernel is the set of the *)
(* bit positions that are set.                                             *)
(*                                                                         *)
(* Every Go function is an operator returning a call record                *)
(*   [ret, mem, calls, addr, panic, path]                                  *)
(* ret: the tagged return value; mem: the output buffer after the call;    *)
(* calls: the foreign calls made, in order; addr: whether &slice[0] of the *)
(* input was formed; panic: "" or the panic message; path: the branch the  *)
(* dispatcher took.  The harness actions call one entry point per step.    *)
(***************************************************************************)
EXTENDS Integers, Sequences, FiniteSets, TLC

VARIABLES op, data, lut, needle, init, mem0, res,
          chunks, init0, running,
          fz,
          sumst, backend, sanity, heap, each, comb, tag

vars == <<op, data, lut, needle, init, mem0, res, chunks, init0, running, fz,
          sumst, backend, sanity, heap, each, comb, tag>>

-----------------------------------------------------------------------------
(* Bounds of the model.                                                    *)

\* Buffers of the dispatch harness have 0..MaxLen bytes.
MaxLen == 66
\* CRC buffers have 0..CrcSmallLen bytes or crc32Threshold-1 .. crc32Threshold+CrcOver.
CrcSmallLen == 2
CrcOver == 1
\* Buffers given to the combine harness have 0..FuzzMaxLen bytes.
FuzzMaxLen == 9

-----------------------------------------------------------------------------
(* Bytes and 32-bit words.                                                 *)

Byte == 0..255

RECURSIVE XorBits(_, _, _)
XorBits(a, b, k) ==
    IF k = 0 THEN 0
    ELSE (((a % 2) + (b % 2)) % 2) + (2 * XorBits(a \div 2, b \div 2, k - 1))

XorNib == [a \in 0..15 |-> [b \in 0..15 |-> XorBits(a, b, 4)]]

\* a ^ b on halves of at most 16 bits
RECURSIVE Xor16(_, _)
Xor16(a, b) ==
    IF a = 0 THEN b
    ELSE IF b = 0 THEN a
    ELSE XorNib[a % 16][b % 16] + (16 * Xor16(a \div 16, b \div 16))

U32(hi, lo) == <<hi, lo>>
Zero32 == U32(0, 0)
\* x ^ y
Xor32(x, y) == <<Xor16(x[1], y[1]), Xor16(x[2], y[2])>>
\* ^x
Not32(x) == <<65535 - x[1], 65535 - x[2]>>
\* x >> 1, x >> 4, x >> 8
Shr1(x) == <<x[1] \div 2, ((x[1] % 2) * 32768) + (x[2] \div 2)>>
Shr4(x) == <<x[1] \div 16, ((x[1] % 16) * 4096) + (x[2] \div 16)>>
Shr8(x) == <<x[1] \div 256, ((x[1] % 256) * 256) + (x[2] \div 256)>>
\* variant: the accumulator saturates at 0xFFFFFFFF
Add32_saturating(x, b) ==
    LET lo == x[2] + b
        hi == x[1] + (lo \div 65536)
    IN  IF hi > 65535 THEN U32(65535, 65535) ELSE <<hi, lo % 65536>>

\* x + uint32(b), wrapping at 2^32
Add32(x, b) ==
    LET lo == x[2] + b
        hi == x[1] + (lo \div 65536)
    IN  <<hi % 65536, lo % 65536>>
\* 1 << k for 0 <= k < 32
RECURSIVE Pow2(_)
Pow2(k) == IF k = 0 THEN 1 ELSE 2 * Pow2(k - 1)
Bit32(k) == IF k < 16 THEN <<0, Pow2(k)>> ELSE <<Pow2(k - 16), 0>>

Min(a, b) == IF a < b THEN a ELSE b

-----------------------------------------------------------------------------
(* Call records.                                                           *)

RetU32(x) == <<"uint32", x>>
RetBool(b) == <<"bool", b>>
RetInt(n) == <<"int", n>>
RetVoid == <<"void">>
RetPanic == <<"panic">>

Res(ret, mem, calls, addr, panic, path) ==
    [ret |-> ret, mem |-> mem, calls |-> calls, addr |-> addr,
     panic |-> panic, path |-> path]

\* a return without touching the backend
Plain(ret, mem, path) == Res(ret, mem, <<>>, FALSE, "", path)
\* panic(msg) raised by the Go code itself
Panic(msg, mem, addr, path) == Res(RetPanic, mem, <<>>, addr, msg, path)
\* one foreign call of kernel sym (lane width w) with length argument n
Foreign(sym, w, n, ret, mem) ==
    Res(ret, mem, <<[sym |-> sym, w |-> w, n |-> n]>>, TRUE, "", "ffi")

IndexPanic == "runtime error: index out of range [0] with length 0"

-----------------------------------------------------------------------------
(* Buffers.                                                                *)

\* b repeated n times (bytes.Repeat)
Repeat(b, n) == [i \in 1..n |-> b]
\* n bytes of fill with byte x at position pos (pos = 0: no such byte)
Buf(n, fill, pos, x) == [i \in 1..n |-> IF i = pos THEN x ELSE fill]
\* b[lo:hi] of Go, 0-based half-open
Slice(b, lo, hi) == [i \in 1..(hi - lo) |-> b[lo + i]]

-----------------------------------------------------------------------------
(* hash/crc32 with the Castagnoli table: the scalar Go routines the algo   *)
(* layer and the tests call (crc32.MakeTable, crc32.Update, crc32.Checksum).*)

\* crc32.Castagnoli = 0x82f63b78
Castagnoli == U32(33526, 15224)

RECURSIVE TableEntry(_, _)
TableEntry(crc, k) ==
    IF k = 0 THEN crc
    ELSE TableEntry(IF crc[2] % 2 = 1 THEN Xor32(Shr1(crc), Castagnoli)
                    ELSE Shr1(crc), k - 1)

castagnoliTable == [i \in 0..255 |-> TableEntry(U32(0, i), 8)]

\* for _, v := range p[lo..hi] { crc = tab[byte(crc)^v] ^ (crc >> 8) }, in index
\* order; the range is split in halves to bound the depth of the evaluation.
RECURSIVE simpleUpdate(_, _, _, _)
simpleUpdate(crc, p, lo, hi) ==
    IF lo > hi THEN crc
    ELSE IF lo = hi
         THEN Xor32(castagnoliTable[Xor16(crc[2] % 256, p[lo])], Shr8(crc))
         ELSE LET mid == (lo + hi) \div 2
                  c == simpleUpdate(crc, p, lo, mid)
              IN  IF c = c THEN simpleUpdate(c, p, mid + 1, hi) ELSE c

crc32_Update(crc, p) == Not32(simpleUpdate(Not32(crc), p, 1, Len(p)))
crc32_Checksum(p) == crc32_Update(Zero32, p)

-----------------------------------------------------------------------------
(* Scalar references of the tests.                                         *)

\* for _, b := range data[lo..hi] { acc += uint32(b) }
RECURSIVE SumLoop(_, _, _, _)
SumLoop(acc, p, lo, hi) ==
    IF lo > hi THEN acc
    ELSE IF lo = hi THEN Add32(acc, p[lo])
         ELSE LET mid == (lo + hi) \div 2
                  c == SumLoop(acc, p, lo, mid)
              IN  IF c = c THEN SumLoop(c, p, mid + 1, hi) ELSE c

scalarSum(d) == SumLoop(Zero32, d, 1, Len(d))
\* b&0x80 != 0
HighBit(b) == (b \div 128) % 2 = 1
scalarIsASCII(d) == ~ \E i \in 1..Len(d) : HighBit(d[i])
scalarAllBytesInSet(d, t) == ~ \E i \in 1..Len(d) : t[d[i]] = 0

-----------------------------------------------------------------------------
(* The native kernels.  Their Rust source is not part of src/; each is the *)
(* contract the tests and section 8 of the specification state for it.     *)

\* sum_u8_16 / _32 / _64: the sum of all n bytes modulo 2^32
sum_u8_raw(w, d) == SumLoop(Zero32, d, 1, Len(d))
\* is_ascii16 / 32 / 64: 1 iff every byte < 0x80
is_ascii_raw(w, d) == IF \A i \in 1..Len(d) : d[i] < 128 THEN 1 ELSE 0
\* validate_u8_lut16 / 32 / 64: 1 iff lut[b] != 0 for every byte b
validate_u8_lut_raw(w, d, t) == IF \A i \in 1..Len(d) : t[d[i]] # 0 THEN 1 ELSE 0
\* map_u8_lut16 / 32 / 64: dst[i] = lut[src[i]] for the n bytes of src
map_u8_lut_raw(w, src, dst, t) ==
    [i \in 1..Len(dst) |-> IF i <= Len(src) THEN t[src[i]] ELSE dst[i]]
\* eq_u8_masks16 / 32 / 64: one mask word per whole w-byte chunk, bit j set
\* iff byte j of the chunk equals the needle; the tail is not read
eq_u8_masks_raw(w, d, c, out) ==
    [i \in 1..Len(out) |->
        IF i <= Len(d) \div w
        THEN {j \in 0..(w - 1) : d[((i - 1) * w) + j + 1] = c}
        ELSE out[i]]
\* crc32_update_32 / _64: the CRC-32C of the n bytes continued from init, in
\* the convention of hash/crc32
crc32_update_raw(w, d, i) == crc32_Update(i, d)

-----------------------------------------------------------------------------
(* internal/ffi: the width-specific wrappers of the syso backend.          *)

ffi_SumU8_32(d) ==
    IF Len(d) = 0 THEN Plain(RetU32(Zero32), <<>>, "identity")
    ELSE Foreign("sum_u8_32", 32, Len(d), RetU32(sum_u8_raw(32, d)), <<>>)

ffi_SumU8_64(d) ==
    IF Len(d) = 0 THEN Plain(RetU32(Zero32), <<>>, "identity")
    ELSE Foreign("sum_u8_64", 64, Len(d), RetU32(sum_u8_raw(64, d)), <<>>)

\* variant: the zero-length check is missing
ffi_SumU8_16_noZeroCheck(d) ==
    Foreign("sum_u8_16", 16, Len(d), RetU32(sum_u8_raw(16, d)), <<>>)

ffi_SumU8_16(d) ==
    IF Len(d) = 0 THEN Plain(RetU32(Zero32), <<>>, "identity")
    ELSE Foreign("sum_u8_16", 16, Len(d), RetU32(sum_u8_raw(16, d)), <<>>)

ffi_IsASCII32(d) ==
    IF Len(d) = 0 THEN Plain(RetBool(TRUE), <<>>, "identity")
    ELSE Foreign("is_ascii32", 32, Len(d), RetBool(is_ascii_raw(32, d) # 0), <<>>)

ffi_IsASCII64(d) ==
    IF Len(d) = 0 THEN Plain(RetBool(TRUE), <<>>, "identity")
    ELSE Foreign("is_ascii64", 64, Len(d), RetBool(is_ascii_raw(64, d) # 0), <<>>)

ffi_IsASCII16(d) ==
    IF Len(d) = 0 THEN Plain(RetBool(TRUE), <<>>, "identity")
    ELSE Foreign("is_ascii16", 16, Len(d), RetBool(is_ascii_raw(16, d) # 0), <<>>)

ffi_AllBytesInSet32(d, t) ==
    IF Len(d) = 0 THEN Plain(RetBool(TRUE), <<>>, "identity")
    ELSE Foreign("validate_u8_lut32", 32, Len(d), RetBool(validate_u8_lut_raw(32, d, t) # 0), <<>>)

ffi_AllBytesInSet64(d, t) ==
    IF Len(d) = 0 THEN Plain(RetBool(TRUE), <<>>, "identity")
    ELSE Foreign("validate_u8_lut64", 64, Len(d), RetBool(validate_u8_lut_raw(64, d, t) # 0), <<>>)

ffi_AllBytesInSet16(d, t) ==
    IF Len(d) = 0 THEN Plain(RetBool(TRUE), <<>>, "identity")
    ELSE Foreign("validate_u8_lut16", 16, Len(d), RetBool(validate_u8_lut_raw(16, d, t) # 0), <<>>)

\* variant: the length check is missing
ffi_MapBytes32_noLenCheck(dst, src, t) ==
    IF Len(src) = 0 THEN Plain(RetVoid, dst, "identity")
    ELSE Foreign("map_u8_lut32", 32, Len(src), RetVoid, map_u8_lut_raw(32, src, dst, t))

ffi_MapBytes32(dst, src, t) ==
    IF Len(src) = 0 THEN Plain(RetVoid, dst, "identity")
    ELSE IF Len(dst) < Len(src)
         THEN Panic("ffi: MapBytes dst slice too short", dst, FALSE, "panic")
         ELSE Foreign("map_u8_lut32", 32, Len(src), RetVoid, map_u8_lut_raw(32, src, dst, t))

ffi_MapBytes64(dst, src, t) ==
    IF Len(src) = 0 THEN Plain(RetVoid, dst, "identity")
    ELSE IF Len(dst) < Len(src)
         THEN Panic("ffi: MapBytes dst slice too short", dst, FALSE, "panic")
         ELSE Foreign("map_u8_lut64", 64, Len(src), RetVoid, map_u8_lut_raw(64, src, dst, t))

ffi_MapBytes16(dst, src, t) ==
    IF Len(src) = 0 THEN Plain(RetVoid, dst, "identity")
    ELSE IF Len(dst) < Len(src)
         THEN Panic("ffi: MapBytes dst slice too short", dst, FALSE, "panic")
         ELSE Foreign("map_u8_lut16", 16, Len(src), RetVoid, map_u8_lut_raw(16, src, dst, t))

\* &out[0] is evaluated for the call: an empty out panics there, after
\* &data[0] was formed and before the kernel is entered.
ffi_EqU8Masks32(d, c, out) ==
    IF Len(d) = 0 THEN Plain(RetInt(0), out, "identity")
    ELSE IF Len(out) < Len(d) \div 32
         THEN Panic("ffi: EqU8Masks32 out slice too short", out, FALSE, "panic")
         ELSE LET nchunks == Len(d) \div 32
              IN  IF Len(out) = 0 THEN Panic(IndexPanic, out, TRUE, "panic")
                  ELSE Foreign("eq_u8_masks32", 32, Len(d), RetInt(nchunks * 32),
                               eq_u8_masks_raw(32, d, c, out))

\* variant: returns the chunk count instead of the byte count
ffi_EqU8Masks64_returnsChunks(d, c, out) ==
    IF Len(d) = 0 THEN Plain(RetInt(0), out, "identity")
    ELSE IF Len(out) < Len(d) \div 64
         THEN Panic("ffi: EqU8Masks64 out slice too short", out, FALSE, "panic")
         ELSE LET nchunks == Len(d) \div 64
              IN  IF Len(out) = 0 THEN Panic(IndexPanic, out, TRUE, "panic")
                  ELSE Foreign("eq_u8_masks64", 64, Len(d), RetInt(nchunks),
                               eq_u8_masks_raw(64, d, c, out))

ffi_EqU8Masks64(d, c, out) ==
    IF Len(d) = 0 THEN Plain(RetInt(0), out, "identity")
    ELSE IF Len(out) < Len(d) \div 64
         THEN Panic("ffi: EqU8Masks64 out slice too short", out, FALSE, "panic")
         ELSE LET nchunks == Len(d) \div 64
              IN  IF Len(out) = 0 THEN Panic(IndexPanic, out, TRUE, "panic")
                  ELSE Foreign("eq_u8_masks64", 64, Len(d), RetInt(nchunks * 64),
                               eq_u8_masks_raw(64, d, c, out))

ffi_EqU8Masks16(d, c, out) ==
    IF Len(d) = 0 THEN Plain(RetInt(0), out, "identity")
    ELSE IF Len(out) < Len(d) \div 16
         THEN Panic("ffi: EqU8Masks16 out slice too short", out, FALSE, "panic")
         ELSE LET nchunks == Len(d) \div 16
              IN  IF Len(out) = 0 THEN Panic(IndexPanic, out, TRUE, "panic")
                  ELSE Foreign("eq_u8_masks16", 16, Len(d), RetInt(nchunks * 16),
                               eq_u8_masks_raw(16, d, c, out))

ffi_Crc32Update32(d, i) ==
    IF Len(d) = 0 THEN Plain(RetU32(i), <<>>, "identity")
    ELSE Foreign("crc32_update_32", 32, Len(d), RetU32(crc32_update_raw(32, d, i)), <<>>)

ffi_Crc32Update64(d, i) ==
    IF Len(d) = 0 THEN Plain(RetU32(i), <<>>, "identity")
    ELSE Foreign("crc32_update_64", 64, Len(d), RetU32(crc32_update_raw(64, d, i)), <<>>)

-----------------------------------------------------------------------------
(* pkg/intrinsics: the lane-width dispatchers.                             *)

intrinsics_SumU8(d) ==
    LET n == Len(d)
    IN  IF n = 0 THEN Plain(RetU32(Zero32), <<>>, "identity")
        ELSE IF n >= 64 THEN ffi_SumU8_64(d)
        ELSE ffi_SumU8_32(d)

\* variant: n > 64 where the code has n >= 64
intrinsics_IsASCII_gt(d) ==
    LET n == Len(d)
    IN  CASE n = 0 -> Plain(RetBool(TRUE), <<>>, "identity")
          [] n # 0 /\ n > 64 -> ffi_IsASCII64(d)
          [] n # 0 /\ n <= 64 /\ n >= 32 -> ffi_IsASCII32(d)
          [] OTHER -> ffi_IsASCII16(d)

intrinsics_IsASCII(d) ==
    LET n == Len(d)
    IN  CASE n = 0 -> Plain(RetBool(TRUE), <<>>, "identity")
          [] n # 0 /\ n >= 64 -> ffi_IsASCII64(d)
          [] n # 0 /\ n < 64 /\ n >= 32 -> ffi_IsASCII32(d)
          [] OTHER -> ffi_IsASCII16(d)

\* variant: no 16-lane branch, as in SumU8
intrinsics_AllBytesInSet_no16(d, t) ==
    LET n == Len(d)
    IN  CASE n = 0 -> Plain(RetBool(TRUE), <<>>, "identity")
          [] n # 0 /\ n >= 64 -> ffi_AllBytesInSet64(d, t)
          [] OTHER -> ffi_AllBytesInSet32(d, t)

intrinsics_AllBytesInSet(d, t) ==
    LET n == Len(d)
    IN  CASE n = 0 -> Plain(RetBool(TRUE), <<>>, "identity")
          [] n # 0 /\ n >= 64 -> ffi_AllBytesInSet64(d, t)
          [] n # 0 /\ n < 64 /\ n >= 32 -> ffi_AllBytesInSet32(d, t)
          [] OTHER -> ffi_AllBytesInSet16(d, t)

intrinsics_MapBytes(dst, src, t) ==
    LET n == Len(src)
    IN  CASE n = 0 -> Plain(RetVoid, dst, "identity")
          [] n # 0 /\ Len(dst) < n ->
                Panic("intrinsics: MapBytes dst slice too short", dst, FALSE, "panic")
          [] n # 0 /\ Len(dst) >= n /\ n >= 64 -> ffi_MapBytes64(dst, src, t)
          [] n # 0 /\ Len(dst) >= n /\ n < 64 /\ n >= 32 -> ffi_MapBytes32(dst, src, t)
          [] OTHER -> ffi_MapBytes16(dst, src, t)

intrinsics_Crc32Update(d, i) ==
    LET n == Len(d)
    IN  CASE n = 0 -> Plain(RetU32(i), <<>>, "identity")
          [] n # 0 /\ n >= 64 -> ffi_Crc32Update64(d, i)
          [] OTHER -> ffi_Crc32Update32(d, i)

intrinsics_EqU8Masks64(d, c, out) == ffi_EqU8Masks64(d, c, out)
\* variant: the 32-lane entry point wired to the 16-lane wrapper
intrinsics_EqU8Masks32_wired16(d, c, out) == ffi_EqU8Masks16(d, c, out)
intrinsics_EqU8Masks32(d, c, out) == ffi_EqU8Masks32(d, c, out)
intrinsics_EqU8Masks16(d, c, out) == ffi_EqU8Masks16(d, c, out)

-----------------------------------------------------------------------------
(* pkg/algo: the scalar/SIMD threshold dispatchers.                        *)

simdThreshold == 16
asciiThreshold == 32
simdLUTThreshold == 16
simdMapThreshold == 64
crc32Threshold == 1024

\* the callee's record, marked as reached through the intrinsics layer
Via(r) == [r EXCEPT !.path = "intrinsics"]

\* variant: <= where the code has <
algo_SumU8_le(d) ==
    IF Len(d) <= simdThreshold
    THEN Plain(RetU32(SumLoop(Zero32, d, 1, Len(d))), <<>>, "scalar")
    ELSE Via(intrinsics_SumU8(d))

algo_SumU8(d) ==
    IF Len(d) < simdThreshold
    THEN Plain(RetU32(SumLoop(Zero32, d, 1, Len(d))), <<>>, "scalar")
    ELSE Via(intrinsics_SumU8(d))

\* variant: the scalar loop stops one byte early
algo_IsASCII_skipLast(d) ==
    IF Len(d) < asciiThreshold
    THEN Plain(RetBool(~ \E i \in 1..(Len(d) - 1) : HighBit(d[i])), <<>>, "scalar")
    ELSE Via(intrinsics_IsASCII(d))

algo_IsASCII(d) ==
    IF Len(d) < asciiThreshold
    THEN Plain(RetBool(~ \E i \in 1..Len(d) : HighBit(d[i])), <<>>, "scalar")
    ELSE Via(intrinsics_IsASCII(d))

algo_AllBytesInSet(d, t) ==
    IF Len(d) < simdLUTThreshold
    THEN Plain(RetBool(~ \E i \in 1..Len(d) : t[d[i]] = 0), <<>>, "scalar")
    ELSE Via(intrinsics_AllBytesInSet(d, t))

\* variant: dst and src are handed to intrinsics.MapBytes unsliced
algo_MapBytes_unsliced(dst, src, t) ==
    LET n == Min(Len(src), Len(dst))
    IN  IF n = 0 THEN Plain(RetInt(0), dst, "identity")
        ELSE IF n < simdMapThreshold
             THEN Plain(RetInt(n),
                        [i \in 1..Len(dst) |-> IF i <= n THEN t[src[i]] ELSE dst[i]],
                        "scalar")
             ELSE LET r == intrinsics_MapBytes(dst, src, t)
                  IN  IF r.panic # "" THEN Via(r) ELSE Via([r EXCEPT !.ret = RetInt(n)])

\* intrinsics.MapBytes(dst[:n], src[:n], lut) writes through the callee's view
\* of dst: the bytes dst[n:] are outside it.
algo_MapBytes(dst, src, t) ==
    LET n == Min(Len(src), Len(dst))
    IN  IF n = 0 THEN Plain(RetInt(0), dst, "identity")
        ELSE IF n < simdMapThreshold
             THEN Plain(RetInt(n),
                        [i \in 1..Len(dst) |-> IF i <= n THEN t[src[i]] ELSE dst[i]],
                        "scalar")
             ELSE LET r == intrinsics_MapBytes(Slice(dst, 0, n), Slice(src, 0, n), t)
                  IN  IF r.panic # "" THEN Via([r EXCEPT !.mem = dst])
                      ELSE Via([r EXCEPT !.ret = RetInt(n),
                                         !.mem = [i \in 1..Len(dst) |->
                                                    IF i <= n THEN r.mem[i] ELSE dst[i]]])

algo_CRC32(d) ==
    IF Len(d) < crc32Threshold
    THEN Plain(RetU32(crc32_Checksum(d)), <<>>, "scalar")
    ELSE Via(intrinsics_Crc32Update(d, Zero32))

\* variant: the SIMD path starts from 0 instead of init
algo_CRC32Update_dropsInit(d, i) ==
    IF Len(d) < crc32Threshold
    THEN Plain(RetU32(crc32_Update(i, d)), <<>>, "scalar")
    ELSE Via(intrinsics_Crc32Update(d, Zero32))

algo_CRC32Update(d, i) ==
    IF Len(d) < crc32Threshold
    THEN Plain(RetU32(crc32_Update(i, d)), <<>>, "scalar")
    ELSE Via(intrinsics_Crc32Update(d, i))

-----------------------------------------------------------------------------
(* CRC32 combination: combineGeneric (the GF(2) matrix routine) and the    *)
(* native crc32_combine behind ffi.Crc32Combine / algo.CRC32Combine.       *)

\* x * b for a bit b
TimesBit(x, b) == IF b = 1 THEN x ELSE Zero32

\* (m *gf2Mat) mul: for i := 0; vec != 0; i, vec = i+4, vec>>4 { sum ^= ... }
RECURSIVE gf2Mat_mulLoop(_, _, _, _)
gf2Mat_mulLoop(m, vec, i, sum) ==
    IF vec = Zero32 THEN sum
    ELSE LET t == Xor32(Xor32(TimesBit(m[i], vec[2] % 2),
                               TimesBit(m[i + 1], (vec[2] \div 2) % 2)),
                        Xor32(TimesBit(m[i + 2], (vec[2] \div 4) % 2),
                               TimesBit(m[i + 3], (vec[2] \div 8) % 2)))
             s == Xor32(sum, t)
         IN  IF s = s THEN gf2Mat_mulLoop(m, Shr4(vec), i + 4, s) ELSE s

\* variant: only the low 16 bits of vec are multiplied
gf2Mat_mul_low16(m, vec) == gf2Mat_mulLoop(m, U32(0, vec[2]), 0, Zero32)

gf2Mat_mul(m, vec) == gf2Mat_mulLoop(m, vec, 0, Zero32)

\* (m *gf2Mat) pow2(lhs): the new value of m
\* variant: the destination copies lhs instead of squaring it
gf2Mat_pow2_copy(lhs) == [n \in 0..31 |-> lhs[n]]
gf2Mat_pow2(lhs) == [n \in 0..31 |-> gf2Mat_mul(lhs, lhs[n])]

initOdd == [n \in 0..31 |-> IF n < 4 THEN Zero32 ELSE Bit32(n - 4)]
initEven == [n \in 0..31 |-> IF n < 2 THEN Zero32 ELSE Bit32(n - 2)]

\* the loop of combineGeneric; pOdd and pEven are the matrices the two
\* pointers refer to, which trade places after every round
RECURSIVE combineLoop(_, _, _, _)
combineLoop(pOdd, pEven, crc1, length) ==
    IF ~(length > 0) THEN crc1
    ELSE LET e == gf2Mat_pow2(pOdd)
             c == IF length % 2 # 0 THEN gf2Mat_mul(e, crc1) ELSE crc1
         IN  IF c = c THEN combineLoop(e, pOdd, c, length \div 2) ELSE c

\* variant: the two matrix pointers are not swapped after a round
RECURSIVE combineLoop_noSwap(_, _, _, _)
combineLoop_noSwap(pOdd, pEven, crc1, length) ==
    IF ~(length > 0) THEN crc1
    ELSE LET e == gf2Mat_pow2(pOdd)
             c == IF length % 2 # 0 THEN gf2Mat_mul(e, crc1) ELSE crc1
         IN  IF c = c THEN combineLoop_noSwap(pOdd, e, c, length \div 2) ELSE c

combineGeneric_noSwap(poly, crc1, crc2, length) ==
    IF length <= 0 THEN crc1
    ELSE LET odd == [initOdd EXCEPT ![0] = poly[16], ![1] = poly[32],
                                    ![2] = poly[64], ![3] = poly[128]]
             even == [initEven EXCEPT ![0] = poly[64], ![1] = poly[128]]
         IN  Xor32(combineLoop_noSwap(odd, even, crc1, length), crc2)

combineGeneric(poly, crc1, crc2, length) ==
    IF length <= 0 THEN crc1
    ELSE LET odd == [initOdd EXCEPT ![0] = poly[16], ![1] = poly[32],
                                    ![2] = poly[64], ![3] = poly[128]]
             even == [initEven EXCEPT ![0] = poly[64], ![1] = poly[128]]
         IN  Xor32(combineLoop(odd, even, crc1, length), crc2)

\* crc32_combine (native, not part of src/): the linear operator "append len2
\* zero bytes" applied to crc1, XOR crc2.  The operator is computed here byte
\* by byte on the raw register.
crc32_combine_raw(crc1, crc2, len2) ==
    Xor32(simpleUpdate(crc1, Repeat(0, len2), 1, len2), crc2)

ffi_Crc32Combine(crc1, crc2, len2) ==
    Res(RetU32(crc32_combine_raw(crc1, crc2, len2)), <<>>,
        <<[sym |-> "crc32_combine", w |-> 0, n |-> len2]>>, FALSE, "", "ffi")

algo_CRC32Combine(crc1, crc2, len2) == ffi_Crc32Combine(crc1, crc2, len2)

-----------------------------------------------------------------------------
(* Inputs of the harnesses.                                                *)

\* asciiLUT of lut_test.go and lowerLUT of chunk_test.go
asciiLUT == [b \in Byte |-> IF b < 128 THEN 1 ELSE 0]
lowerLUT == [b \in Byte |-> IF b >= 65 /\ b <= 90 THEN b + 32 ELSE b]
LUT(name) == IF name = "lower" THEN lowerLUT ELSE asciiLUT

\* 'A' everywhere, with at most one byte 0xC8 at the front or at the back
Bufs == UNION {{Buf(n, 65, p, 200) : p \in {0, 1, n}} : n \in 0..MaxLen}
\* make([]byte, m) for the destination lengths around len(src) and around the
\* mapping threshold
Dsts(n) == {Repeat(0, m) : m \in {0, n - 1, n, n + 1, simdMapThreshold - 1} \cap (0..(MaxLen + 1))}
\* 'a' everywhere, with at most one '_' at the front or at the back
MaskBufs == UNION {{Buf(n, 97, p, 95) : p \in {0, 1, n}} : n \in 0..MaxLen}
Needles == {95, 97}
\* make([]uintN, m)
Outs == {[i \in 1..m |-> {}] : m \in 0..((MaxLen \div 16) + 1)}

Ramp(n) == [i \in 1..n |-> ((7 * i) + n) % 256]
CrcLens == (0..CrcSmallLen) \cup ((crc32Threshold - 1)..(crc32Threshold + CrcOver))
CrcBufs == {Ramp(n) : n \in CrcLens}
\* 0, 0xFFFFFFFF, CRC32C("hello"), 0x00010000
Inits == {Zero32, U32(65535, 65535), U32(39537, 47948), U32(1, 0)}

FuzzA == {Ramp(n) : n \in 0..FuzzMaxLen}
FuzzB == FuzzA \cup {Repeat(171, n) : n \in 0..FuzzMaxLen}

NoRes == Res(RetVoid, <<>>, <<>>, FALSE, "", "none")
FzOff == [pc |-> "off"]
\* a harness that is not part of the specification at hand
Off == [pc |-> "off"]
OthersOff == sumst = Off /\ backend = Off /\ sanity = Off /\ heap = Off /\ each = Off /\ comb = Off /\ tag = Off

-----------------------------------------------------------------------------
(* The dispatch harness: Init draws the arguments of one call, and each     *)
(* action is one call of one entry point on them.  op names the argument    *)
(* family before the call and the entry point after it.                     *)

Init ==
    /\ \/ op = "bytes" /\ data \in Bufs /\ lut = "none" /\ needle = 0
          /\ init = Zero32 /\ mem0 = <<>>
       \/ op = "set" /\ data \in Bufs /\ lut \in {"ascii", "lower"} /\ needle = 0
          /\ init = Zero32 /\ mem0 = <<>>
       \/ op = "map" /\ data \in Bufs /\ lut = "lower" /\ needle = 0
          /\ init = Zero32 /\ mem0 \in Dsts(Len(data))
       \/ op = "mask" /\ data \in MaskBufs /\ lut = "none" /\ needle \in Needles
          /\ init = Zero32 /\ mem0 \in Outs
       \/ op = "crc" /\ data \in CrcBufs /\ lut = "none" /\ needle = 0
          /\ init \in Inits /\ mem0 = <<>>
    /\ res = NoRes
    /\ chunks = <<>> /\ init0 = Zero32 /\ running = Zero32
    /\ fz = FzOff
    /\ OthersOff

Call(family, name, r) ==
    /\ op = family
    /\ op' = name
    /\ res' = r
    /\ UNCHANGED <<data, lut, needle, init, mem0, chunks, init0, running, fz,
                   sumst, backend, sanity, heap,
                   each, comb, tag>>

Call_ffi_SumU8_32 == Call("bytes", "ffi.SumU8_32", ffi_SumU8_32(data))
Call_ffi_SumU8_64 == Call("bytes", "ffi.SumU8_64", ffi_SumU8_64(data))
Call_ffi_SumU8_16 == Call("bytes", "ffi.SumU8_16", ffi_SumU8_16(data))
Call_intrinsics_SumU8 == Call("bytes", "intrinsics.SumU8", intrinsics_SumU8(data))
Call_algo_SumU8 == Call("bytes", "algo.SumU8", algo_SumU8(data))

Call_ffi_IsASCII32 == Call("bytes", "ffi.IsASCII32", ffi_IsASCII32(data))
Call_ffi_IsASCII64 == Call("bytes", "ffi.IsASCII64", ffi_IsASCII64(data))
Call_ffi_IsASCII16 == Call("bytes", "ffi.IsASCII16", ffi_IsASCII16(data))
Call_intrinsics_IsASCII == Call("bytes", "intrinsics.IsASCII", intrinsics_IsASCII(data))
Call_algo_IsASCII == Call("bytes", "algo.IsASCII", algo_IsASCII(data))

Call_ffi_AllBytesInSet32 ==
    Call("set", "ffi.AllBytesInSet32", ffi_AllBytesInSet32(data, LUT(lut)))
Call_ffi_AllBytesInSet64 ==
    Call("set", "ffi.AllBytesInSet64", ffi_AllBytesInSet64(data, LUT(lut)))
Call_ffi_AllBytesInSet16 ==
    Call("set", "ffi.AllBytesInSet16", ffi_AllBytesInSet16(data, LUT(lut)))
Call_intrinsics_AllBytesInSet ==
    Call("set", "intrinsics.AllBytesInSet", intrinsics_AllBytesInSet(data, LUT(lut)))
Call_algo_AllBytesInSet ==
    Call("set", "algo.AllBytesInSet", algo_AllBytesInSet(data, LUT(lut)))

Call_ffi_MapBytes32 == Call("map", "ffi.MapBytes32", ffi_MapBytes32(mem0, data, LUT(lut)))
Call_ffi_MapBytes64 == Call("map", "ffi.MapBytes64", ffi_MapBytes64(mem0, data, LUT(lut)))
Call_ffi_MapBytes16 == Call("map", "ffi.MapBytes16", ffi_MapBytes16(mem0, data, LUT(lut)))
Call_intrinsics_MapBytes ==
    Call("map", "intrinsics.MapBytes", intrinsics_MapBytes(mem0, data, LUT(lut)))
Call_algo_MapBytes == Call("map", "algo.MapBytes", algo_MapBytes(mem0, data, LUT(lut)))

Call_ffi_EqU8Masks32 == Call("mask", "ffi.EqU8Masks32", ffi_EqU8Masks32(data, needle, mem0))
Call_ffi_EqU8Masks64 == Call("mask", "ffi.EqU8Masks64", ffi_EqU8Masks64(data, needle, mem0))
Call_ffi_EqU8Masks16 == Call("mask", "ffi.EqU8Masks16", ffi_EqU8Masks16(data, needle, mem0))
Call_intrinsics_EqU8Masks64 ==
    Call("mask", "intrinsics.EqU8Masks64", intrinsics_EqU8Masks64(data, needle, mem0))
Call_intrinsics_EqU8Masks32 ==
    Call("mask", "intrinsics.EqU8Masks32", intrinsics_EqU8Masks32(data, needle, mem0))
Call_intrinsics_EqU8Masks16 ==
    Call("mask", "intrinsics.EqU8Masks16", intrinsics_EqU8Masks16(data, needle, mem0))

Call_ffi_Crc32Update32 == Call("crc", "ffi.Crc32Update32", ffi_Crc32Update32(data, init))
Call_ffi_Crc32Update64 == Call("crc", "ffi.Crc32Update64", ffi_Crc32Update64(data, init))
Call_intrinsics_Crc32Update ==
    Call("crc", "intrinsics.Crc32Update", intrinsics_Crc32Update(data, init))
Call_algo_CRC32 == Call("crc", "algo.CRC32", algo_CRC32(data))
Call_algo_CRC32Update == Call("crc", "algo.CRC32Update", algo_CRC32Update(data, init))

Next ==
    \/ Call_ffi_SumU8_32 \/ Call_ffi_SumU8_64 \/ Call_ffi_SumU8_16
    \/ Call_intrinsics_SumU8 \/ Call_algo_SumU8
    \/ Call_ffi_IsASCII32 \/ Call_ffi_IsASCII64 \/ Call_ffi_IsASCII16
    \/ Call_intrinsics_IsASCII \/ Call_algo_IsASCII
    \/ Call_ffi_AllBytesInSet32 \/ Call_ffi_AllBytesInSet64 \/ Call_ffi_AllBytesInSet16
    \/ Call_intrinsics_AllBytesInSet \/ Call_algo_AllBytesInSet
    \/ Call_ffi_MapBytes32 \/ Call_ffi_MapBytes64 \/ Call_ffi_MapBytes16
    \/ Call_intrinsics_MapBytes \/ Call_algo_MapBytes
    \/ Call_ffi_EqU8Masks32 \/ Call_ffi_EqU8Masks64 \/ Call_ffi_EqU8Masks16
    \/ Call_intrinsics_EqU8Masks64 \/ Call_intrinsics_EqU8Masks32
    \/ Call_intrinsics_EqU8Masks16
    \/ Call_ffi_Crc32Update32 \/ Call_ffi_Crc32Update64
    \/ Call_intrinsics_Crc32Update \/ Call_algo_CRC32 \/ Call_algo_CRC32Update

Spec == Init /\ [][Next]_vars

-----------------------------------------------------------------------------
(* The streaming harness (TestCRC32UpdateAndCombine): a digest started at   *)
(* init0 and continued over two buffers with algo.CRC32Update.  chunks are  *)
(* the buffers written so far, running the digest after them.               *)

InitCrc ==
    /\ chunks = <<>> /\ init0 \in Inits /\ running = init0
    /\ op = "off" /\ data = <<>> /\ lut = "none" /\ needle = 0
    /\ init = Zero32 /\ mem0 = <<>> /\ res = NoRes
    /\ fz = FzOff
    /\ OthersOff

\* got1 := CRC32Update(buf1, init0)
UpdateFirst ==
    /\ Len(chunks) = 0
    /\ \E buf1 \in CrcBufs :
          /\ running' = algo_CRC32Update(buf1, running).ret[2]
          /\ chunks' = <<buf1>>
    /\ UNCHANGED <<op, data, lut, needle, init, mem0, res, init0, fz,
                   sumst, backend, sanity, heap,
                   each, comb, tag>>

\* got2 := CRC32Update(buf2, got1)
UpdateSecond ==
    /\ Len(chunks) = 1
    /\ \E buf2 \in CrcBufs :
          /\ running' = algo_CRC32Update(buf2, running).ret[2]
          /\ chunks' = Append(chunks, buf2)
    /\ UNCHANGED <<op, data, lut, needle, init, mem0, res, init0, fz,
                   sumst, backend, sanity, heap,
                   each, comb, tag>>

NextCrc == UpdateFirst \/ UpdateSecond

SpecCrc == InitCrc /\ [][NextCrc]_vars

-----------------------------------------------------------------------------
(* The combine harness: the body of FuzzCRC32CombineVsUpdate on (a, b), and *)
(* the same computation through the algo layer                              *)
(* (TestCRC32UpdateAndCombineGolden).                                       *)

InitCombine ==
    /\ \E a \in FuzzA, b \in FuzzB :
          fz = [pc |-> "start", a |-> a, b |-> b, crcA |-> Zero32, crcB |-> Zero32,
                streaming |-> Zero32, combined |-> Zero32, want |-> Zero32]
    /\ op = "off" /\ data = <<>> /\ lut = "none" /\ needle = 0
    /\ init = Zero32 /\ mem0 = <<>> /\ res = NoRes
    /\ chunks = <<>> /\ init0 = Zero32 /\ running = Zero32
    /\ OthersOff

FuzzCRC32CombineVsUpdate ==
    /\ fz.pc = "start"
    /\ LET tbl == castagnoliTable
           crcA == crc32_Update(Zero32, fz.a)
           crcB == crc32_Update(Zero32, fz.b)
       IN  fz' = [fz EXCEPT !.pc = "fuzz", !.crcA = crcA, !.crcB = crcB,
                            !.streaming = crc32_Update(crcA, fz.b),
                            !.combined = combineGeneric(tbl, crcA, crcB, Len(fz.b)),
                            !.want = crc32_Checksum(fz.a \o fz.b)]
    /\ UNCHANGED <<op, data, lut, needle, init, mem0, res, chunks, init0, running,
                   sumst, backend, sanity, heap,
                   each, comb, tag>>

TestCRC32UpdateAndCombineGolden ==
    /\ fz.pc = "start"
    /\ LET crc1 == algo_CRC32(fz.a).ret[2]
           crc2 == algo_CRC32(fz.b).ret[2]
       IN  fz' = [fz EXCEPT !.pc = "algo", !.crcA = crc1, !.crcB = crc2,
                            !.streaming = algo_CRC32Update(fz.b, crc1).ret[2],
                            !.combined = algo_CRC32Combine(crc1, crc2, Len(fz.b)).ret[2],
                            !.want = algo_CRC32(fz.a \o fz.b).ret[2]]
    /\ UNCHANGED <<op, data, lut, needle, init, mem0, res, chunks, init0, running,
                   sumst, backend, sanity, heap,
                   each, comb, tag>>

NextCombine == FuzzCRC32CombineVsUpdate \/ TestCRC32UpdateAndCombineGolden

SpecCombine == InitCombine /\ [][NextCombine]_vars

-----------------------------------------------------------------------------
(* Properties of the dispatch harness (specification Spec).                *)

AlgoOps == {"algo.SumU8", "algo.IsASCII", "algo.AllBytesInSet", "algo.MapBytes",
            "algo.CRC32", "algo.CRC32Update"}
IntrinsicsDispatchers == {"intrinsics.SumU8", "intrinsics.IsASCII",
                          "intrinsics.AllBytesInSet", "intrinsics.MapBytes",
                          "intrinsics.Crc32Update"}
MaskOps == {"ffi.EqU8Masks16", "ffi.EqU8Masks32", "ffi.EqU8Masks64",
            "intrinsics.EqU8Masks16", "intrinsics.EqU8Masks32",
            "intrinsics.EqU8Masks64"}
MapOps == {"ffi.MapBytes16", "ffi.MapBytes32", "ffi.MapBytes64",
           "intrinsics.MapBytes", "algo.MapBytes"}
Called == op \notin {"bytes", "set", "map", "mask", "crc", "off"}

\* the bytes of dst the mapping has to produce: dst[i] = lut[src[i]]
Mapped(dst, src, t, n) == \A i \in 1..n : dst[i] = t[src[i]]

\* C1: every algo-layer operation returns what its scalar reference returns on
\* the whole buffer, whichever path (scalar loop or kernel call) it takes:
\* SumU8 the sum of all bytes mod 2^32, IsASCII whether every byte is < 0x80,
\* AllBytesInSet whether lut[x] # 0 for every byte x, and MapBytes writes
\* dst[i] = lut[src[i]] for every index of the mapping.
C1_AlgoEqualsScalarReference ==
    /\ op = "algo.SumU8" => res.panic = "" /\ res.ret = RetU32(scalarSum(data))
    /\ op = "algo.IsASCII" => res.panic = "" /\ res.ret = RetBool(scalarIsASCII(data))
    /\ op = "algo.AllBytesInSet" =>
          res.panic = "" /\ res.ret = RetBool(scalarAllBytesInSet(data, LUT(lut)))
    /\ op = "algo.MapBytes" =>
          /\ res.panic = ""
          /\ Mapped(res.mem, data, LUT(lut), Min(Len(data), Len(mem0)))

\* a buffer above the threshold whose length is no multiple of a lane width,
\* with the only non-ASCII byte in the tail, checked through a kernel call
C1_Witness ==
    /\ op = "algo.IsASCII" /\ Len(data) = 65 /\ data[65] = 200
    /\ res.path = "intrinsics" /\ Len(res.calls) = 1
    /\ res.ret = RetBool(FALSE)

threshold(o) ==
    CASE o = "algo.SumU8" -> simdThreshold
      [] o = "algo.IsASCII" -> asciiThreshold
      [] o = "algo.AllBytesInSet" -> simdLUTThreshold
      [] o = "algo.MapBytes" -> simdMapThreshold
      [] o \in {"algo.CRC32", "algo.CRC32Update"} -> crc32Threshold

\* the threshold policy for a call whose length is taken to be L
ThresholdPolicy(L) ==
    op \in AlgoOps =>
        /\ L < threshold(op) => res.path \in {"scalar", "identity"} /\ res.calls = <<>>
        /\ L >= threshold(op) => res.path = "intrinsics"
        /\ res.calls # <<>> => L >= threshold(op)

\* C3 (as stated): for every algo-layer operation, an input shorter than the
\* operation's threshold is computed by the scalar Go code with no foreign
\* call, and an input of at least the threshold (the threshold itself
\* included) is delegated to the intrinsics dispatcher.
C3_Original == ThresholdPolicy(Len(data))

\* C3 (amended): the same policy, where the length compared to the threshold
\* is len(input) for SumU8, IsASCII, AllBytesInSet, CRC32 and CRC32Update and
\* min(len(src), len(dst)) for MapBytes.
C3_ThresholdDispatch ==
    ThresholdPolicy(IF op = "algo.MapBytes" THEN Min(Len(data), Len(mem0)) ELSE Len(data))

\* a source of at least the mapping threshold mapped by the scalar loop,
\* because the destination is shorter than the threshold
C3_Witness ==
    /\ op = "algo.MapBytes" /\ Len(data) = simdMapThreshold
    /\ Len(mem0) = simdMapThreshold - 1
    /\ res.path = "scalar" /\ res.calls = <<>> /\ res.ret = RetInt(simdMapThreshold - 1)

\* the lane widths an intrinsics dispatcher chooses from
widths(o) ==
    IF o \in {"intrinsics.SumU8", "intrinsics.Crc32Update"} THEN {64, 32}
    ELSE {64, 32, 16}
Widest(S) == CHOOSE w \in S : \A v \in S : v <= w
Narrowest(S) == CHOOSE w \in S : \A v \in S : v >= w
\* an intrinsics dispatcher has returned from a call with n > 0 bytes
Dispatched ==
    op \in IntrinsicsDispatchers /\ Len(data) > 0 /\ res.panic = ""

\* C4 (as stated): every intrinsics dispatcher invokes, for n > 0, the kernel of
\* the widest lane width w in {64, 32, 16} with n >= w, and no kernel at all
\* when n < 16.
C4_Original ==
    Dispatched =>
        LET fit == {w \in {64, 32, 16} : Len(data) >= w}
        IN  IF fit = {} THEN res.calls = <<>>
            ELSE Len(res.calls) = 1 /\ res.calls[1].w = Widest(fit)

\* C4 (amended): for n > 0 every intrinsics dispatcher invokes exactly one
\* kernel: the widest of the widths it has (64, 32, 16 for IsASCII,
\* AllBytesInSet and MapBytes; 64, 32 for SumU8 and Crc32Update) with n >= w,
\* and its narrowest kernel when n is below all of them.
C4_WidthSelection ==
    Dispatched =>
        LET fit == {w \in widths(op) : Len(data) >= w}
        IN  /\ Len(res.calls) = 1
            /\ res.calls[1].n = Len(data)
            /\ res.calls[1].w = IF fit = {} THEN Narrowest(widths(op)) ELSE Widest(fit)

\* 15 bytes summed by the 32-lane kernel
C4_Witness ==
    /\ op = "intrinsics.SumU8" /\ Len(data) = 15
    /\ Len(res.calls) = 1 /\ res.calls[1].w = 32

\* the identity of the entry point that was called
Identity ==
    CASE op \in {"ffi.SumU8_16", "ffi.SumU8_32", "ffi.SumU8_64", "intrinsics.SumU8",
                 "algo.SumU8", "algo.CRC32"} -> RetU32(Zero32)
      [] op \in {"ffi.IsASCII16", "ffi.IsASCII32", "ffi.IsASCII64", "intrinsics.IsASCII",
                 "algo.IsASCII", "ffi.AllBytesInSet16", "ffi.AllBytesInSet32",
                 "ffi.AllBytesInSet64", "intrinsics.AllBytesInSet",
                 "algo.AllBytesInSet"} -> RetBool(TRUE)
      [] op \in {"ffi.MapBytes16", "ffi.MapBytes32", "ffi.MapBytes64",
                 "intrinsics.MapBytes"} -> RetVoid
      [] op \in {"ffi.Crc32Update32", "ffi.Crc32Update64", "intrinsics.Crc32Update",
                 "algo.CRC32Update"} -> RetU32(init)
      [] op \in MaskOps \cup {"algo.MapBytes"} -> RetInt(0)

\* C5: on a zero-length input every entry point of every layer returns the
\* operation's identity (0 for SumU8, true for IsASCII and AllBytesInSet, no
\* write for MapBytes, init for Crc32Update, 0 bytes for EqU8Masks) without a
\* foreign call and without forming &data[0].
C5_ZeroLengthIdentity ==
    (Called /\ Len(data) = 0) =>
        /\ res.panic = ""
        /\ res.ret = Identity
        /\ res.calls = <<>>
        /\ res.addr = FALSE
        /\ res.mem = mem0

\* an empty source given to the dispatcher with a non-empty destination
C5_Witness ==
    /\ op = "intrinsics.MapBytes" /\ Len(data) = 0 /\ Len(mem0) > 0
    /\ res.calls = <<>> /\ res.mem = mem0

\* the lane width of an EqU8Masks entry point
MaskWidth ==
    CASE op \in {"ffi.EqU8Masks16", "intrinsics.EqU8Masks16"} -> 16
      [] op \in {"ffi.EqU8Masks32", "intrinsics.EqU8Masks32"} -> 32
      [] op \in {"ffi.EqU8Masks64", "intrinsics.EqU8Masks64"} -> 64

\* C7 (as stated): every lane-width dispatch that reaches a kernel of width w
\* with n bytes covers floor(n / w) * w bytes and returns that byte count.
C7_Original ==
    (op \in IntrinsicsDispatchers \cup MaskOps /\ Len(res.calls) = 1) =>
        res.ret = RetInt((Len(data) \div res.calls[1].w) * res.calls[1].w)

\* C7 (amended): only the EqU8Masks<w> entry points work in whole chunks and
\* return floor(n / w) * w; SumU8, IsASCII, AllBytesInSet, MapBytes and
\* Crc32Update hand all n bytes to one kernel call and return the operation's
\* result (a sum or digest, a boolean, nothing), never a byte count.
C7_ChunkAccounting ==
    /\ (op \in MaskOps /\ Len(res.calls) = 1) =>
          /\ res.calls[1].w = MaskWidth
          /\ res.calls[1].n = Len(data)
          /\ res.ret = RetInt((Len(data) \div MaskWidth) * MaskWidth)
    /\ (op \in IntrinsicsDispatchers /\ Len(res.calls) = 1) =>
          /\ res.calls[1].n = Len(data)
          /\ res.ret[1] = CASE op \in {"intrinsics.SumU8", "intrinsics.Crc32Update"} -> "uint32"
                            [] op \in {"intrinsics.IsASCII", "intrinsics.AllBytesInSet"} -> "bool"
                            [] op = "intrinsics.MapBytes" -> "void"

\* 48 bytes through the 32-lane entry point: one chunk, 32 bytes reported
C7_Witness ==
    /\ op = "intrinsics.EqU8Masks32" /\ Len(data) = 48 /\ Len(mem0) = 2
    /\ Len(res.calls) = 1 /\ res.ret = RetInt(32)

ShortDst == op \in MapOps /\ Len(mem0) < Len(data)

\* C8 (as stated): a mapping called with a destination shorter than the source
\* panics at every layer (ffi.MapBytes16/32/64, intrinsics.MapBytes,
\* algo.MapBytes) before any byte of dst is written.
C8_Original ==
    ShortDst => res.panic # "" /\ res.mem = mem0 /\ res.calls = <<>>

\* C8 (amended): with a destination shorter than the source,
\* ffi.MapBytes16/32/64 and intrinsics.MapBytes panic ("... MapBytes dst
\* slice too short") before the kernel is called and before any byte of dst is
\* written; algo.MapBytes does not panic: it maps the first len(dst) bytes
\* and returns len(dst).
C8_ShortDstPanics ==
    ShortDst =>
        CASE op \in {"ffi.MapBytes16", "ffi.MapBytes32", "ffi.MapBytes64"} ->
                /\ res.panic = "ffi: MapBytes dst slice too short"
                /\ res.mem = mem0 /\ res.calls = <<>>
          [] op = "intrinsics.MapBytes" ->
                /\ res.panic = "intrinsics: MapBytes dst slice too short"
                /\ res.mem = mem0 /\ res.calls = <<>>
          [] op = "algo.MapBytes" ->
                res.panic = "" /\ res.ret = RetInt(Len(mem0))

\* the 32-lane wrapper refusing a destination one byte short
C8_Witness ==
    /\ op = "ffi.MapBytes32" /\ Len(data) = 40 /\ Len(mem0) = 39
    /\ res.panic = "ffi: MapBytes dst slice too short" /\ res.mem = mem0

\* C9: algo.MapBytes behaves like copy: it returns n = min(len(src), len(dst)),
\* sets dst[i] = lut[src[i]] for every i < n, leaves dst[n:] alone, and never
\* panics on a length mismatch.
C9_MapBytesLikeCopy ==
    op = "algo.MapBytes" =>
        LET n == Min(Len(data), Len(mem0))
        IN  /\ res.panic = ""
            /\ res.ret = RetInt(n)
            /\ Len(res.mem) = Len(mem0)
            /\ Mapped(res.mem, data, LUT(lut), n)
            /\ \A i \in (n + 1)..Len(mem0) : res.mem[i] = mem0[i]

\* a 66-byte source mapped into a 65-byte destination on the SIMD path
C9_Witness ==
    /\ op = "algo.MapBytes" /\ Len(data) = 66 /\ Len(mem0) = 65
    /\ res.path = "intrinsics" /\ res.ret = RetInt(65) /\ res.mem[65] = 97

\* d with its tail (the bytes after the last whole w-byte chunk) changed: all
\* of it (k = 0) or only its last byte (k = 1) set to x
WithTail(d, w, x, k) ==
    [i \in 1..Len(d) |->
        IF i > (Len(d) \div w) * w /\ (k = 0 \/ i = Len(d)) THEN x ELSE d[i]]
TailVariants(d, w, c) == {WithTail(d, w, x, k) : x \in {c, 0, 255}, k \in {0, 1}}

MaskCall(o, d, c, out) ==
    CASE o = "ffi.EqU8Masks16" -> ffi_EqU8Masks16(d, c, out)
      [] o = "ffi.EqU8Masks32" -> ffi_EqU8Masks32(d, c, out)
      [] o = "ffi.EqU8Masks64" -> ffi_EqU8Masks64(d, c, out)
      [] o = "intrinsics.EqU8Masks16" -> intrinsics_EqU8Masks16(d, c, out)
      [] o = "intrinsics.EqU8Masks32" -> intrinsics_EqU8Masks32(d, c, out)
      [] o = "intrinsics.EqU8Masks64" -> intrinsics_EqU8Masks64(d, c, out)

-----------------------------------------------------------------------------
(* Properties of the streaming harness (specification SpecCrc).            *)

\* C6: streaming composes across the 1024-byte threshold:
\* CRC32Update(B, CRC32Update(A, init)) = CRC32Update(A ++ B, init) for every
\* init and every combination of A and B below or at/above the threshold, and
\* CRC32(A) = CRC32Update(A, 0).
C6_StreamingComposes ==
    /\ Len(chunks) = 2 =>
          running = algo_CRC32Update(chunks[1] \o chunks[2], init0).ret[2]
    /\ (Len(chunks) = 1 /\ init0 = Zero32) =>
          running = algo_CRC32(chunks[1]).ret[2]

\* a scalar first update continued by a SIMD second update from a non-zero init
C6_Witness ==
    /\ Len(chunks) = 2 /\ init0 # Zero32
    /\ Len(chunks[1]) = crc32Threshold - 1 /\ Len(chunks[2]) = crc32Threshold
    /\ running # init0

-----------------------------------------------------------------------------
(* Properties of the combine harness (specification SpecCombine).          *)

\* C2: combine(digest(A), digest(B), len(B)) = digest(A ++ B) for all A and B,
\* empty ones included, for combineGeneric and for algo.CRC32Combine, where
\* digest is the Castagnoli CRC32 started at 0.
C2_CombineLaw ==
    fz.pc \in {"fuzz", "algo"} =>
        /\ fz.crcA = crc32_Checksum(fz.a)
        /\ fz.crcB = crc32_Checksum(fz.b)
        /\ fz.combined = crc32_Checksum(fz.a \o fz.b)

\* combineGeneric on two non-empty buffers, the second of 9 bytes
C2_Witness ==
    /\ fz.pc = "fuzz" /\ Len(fz.a) = 3 /\ Len(fz.b) = 9
    /\ fz.combined = fz.streaming /\ fz.combined # fz.crcA

-----------------------------------------------------------------------------
(* Further properties of the dispatch harness (specification Spec).        *)

\* the 'out slice too short' panic of the wrapper behind the entry point
OutTooShort ==
    CASE MaskWidth = 16 -> "ffi: EqU8Masks16 out slice too short"
      [] MaskWidth = 32 -> "ffi: EqU8Masks32 out slice too short"
      [] MaskWidth = 64 -> "ffi: EqU8Masks64 out slice too short"

\* C11: EqU8Masks<w> requires only len(out) >= floor(len(data) / w): with that
\* the call completes without failure (also for non-empty data shorter than w
\* with an empty out), and with len(out) < floor(len(data) / w) it panics
\* 'out slice too short' before the kernel is invoked and without writing out.
C11_OutLengthRequirement ==
    op \in MaskOps =>
        IF Len(mem0) >= Len(data) \div MaskWidth
        THEN res.panic = ""
        ELSE res.panic = OutTooShort /\ res.calls = <<>> /\ res.mem = mem0

-----------------------------------------------------------------------------
(* The wrap-around harness (TestSumU8Wrap): summing bytes.Repeat(0xFF, n).  *)
(* The buffer is given by its length; sumst is the state of the summing     *)
(* loop: done bytes consumed, acc the accumulator.  Lengths near wrapN are  *)
(* entered in mid-loop, at the state the loop is in after the first bytes   *)
(* (no wrap has happened yet there, so acc is exactly 255 * done).          *)

\* const n = 16_843_010, ceil(2^32 / 255)
wrapN == 16843010
\* lengths wrapN - WrapSlack .. wrapN + WrapSlack, entered WrapBack bytes
\* before wrapN - WrapSlack; and the short lengths 0..WrapSmall from the start
WrapSlack == 3
WrapBack == 70
WrapSmall == 3

\* uint32((255 * k) & 0xFFFFFFFF) for 0 <= k < 2^25
Mul255(k) ==
    LET p == (k % 65536) * 255
        h == ((k \div 65536) * 255) + (p \div 65536)
    IN  U32(h % 65536, p % 65536)

\* one round of a sum_u8 kernel of lane width w (native, not part of src/):
\* the next min(w, left) bytes, all 0xFF, are added to the accumulator
sum_u8_round(acc, w, left) == Add32(acc, 255 * Min(w, left))

WrapLens == (0..WrapSmall) \cup ((wrapN - WrapSlack)..(wrapN + WrapSlack))
\* where the loop over n bytes is entered
EntryPoint(n, path) ==
    IF n <= WrapSmall THEN 0
    ELSE IF path = "scalar" THEN wrapN - WrapSlack - WrapBack
         ELSE ((wrapN - WrapSlack - WrapBack) \div 64) * 64

InitWrap ==
    /\ \E n \in WrapLens, path \in {"scalar", "vector"} :
          sumst = [pc |-> "loop", path |-> path, n |-> n,
                   done |-> EntryPoint(n, path),
                   acc |-> Mul255(EntryPoint(n, path))]
    /\ op = "off" /\ data = <<>> /\ lut = "none" /\ needle = 0
    /\ init = Zero32 /\ mem0 = <<>> /\ res = NoRes
    /\ chunks = <<>> /\ init0 = Zero32 /\ running = Zero32
    /\ fz = FzOff /\ backend = Off /\ sanity = Off /\ heap = Off
    /\ each = Off /\ comb = Off /\ tag = Off

\* for _, b := range data { acc += uint32(b) }
ScalarSumStep ==
    /\ sumst.pc = "loop" /\ sumst.path = "scalar" /\ sumst.done < sumst.n
    /\ sumst' = [sumst EXCEPT !.acc = Add32(sumst.acc, 255), !.done = sumst.done + 1]
    /\ UNCHANGED <<op, data, lut, needle, init, mem0, res, chunks, init0, running, fz,
                   backend, sanity, heap,
                   each, comb, tag>>

\* intrinsics.SumU8 -> ffi.SumU8_64 -> sum_u8_64 on a buffer of >= 64 bytes
KernelSumRound ==
    /\ sumst.pc = "loop" /\ sumst.path = "vector" /\ sumst.done < sumst.n
    /\ sumst' = [sumst EXCEPT
                    !.acc = sum_u8_round(sumst.acc, 64, sumst.n - sumst.done),
                    !.done = sumst.done + Min(64, sumst.n - sumst.done)]
    /\ UNCHANGED <<op, data, lut, needle, init, mem0, res, chunks, init0, running, fz,
                   backend, sanity, heap,
                   each, comb, tag>>

\* return acc
SumReturn ==
    /\ sumst.pc = "loop" /\ sumst.done = sumst.n
    /\ sumst' = [sumst EXCEPT !.pc = "returned"]
    /\ UNCHANGED <<op, data, lut, needle, init, mem0, res, chunks, init0, running, fz,
                   backend, sanity, heap,
                   each, comb, tag>>

NextWrap == ScalarSumStep \/ KernelSumRound \/ SumReturn

SpecWrap == InitWrap /\ [][NextWrap]_vars

\* C12: SumU8 is addition modulo 2^32: the result is (sum of all bytes) mod
\* 2^32 also when the true sum is >= 2^32 (ceil(2^32 / 255) bytes of 0xFF give
\* 254): the accumulator wraps, on the scalar loop and on the vector path.
C12_SumWraps ==
    /\ sumst.pc = "returned" => sumst.acc = Mul255(sumst.n)
    /\ (sumst.pc = "returned" /\ sumst.n = wrapN) => sumst.acc = U32(0, 254)

\* the scalar loop has summed ceil(2^32 / 255) bytes of 0xFF and returned 254
C12_Witness ==
    /\ sumst.pc = "returned" /\ sumst.path = "scalar" /\ sumst.n = wrapN
    /\ sumst.acc = U32(0, 254)


-----------------------------------------------------------------------------
(* internal/ffi: the two backends, the build that selects between them, the *)
(* start-up of a process and the gateway operations its threads call.       *)

Backends == {"cgo", "purego"}
\* //go:build simba_purego || (!cgo && !simba_cgo)
puregoConstraint(s) == s.simba_purego \/ (~s.cgo /\ ~s.simba_cgo)
\* //go:build cgo || simba_cgo
cgoConstraint(s) == s.cgo \/ s.simba_cgo
\* the cgo backend imports "C"; go build leaves such a file out of a build
\* with cgo disabled
importsC(b) == b = "cgo"
constraint(b, s) == IF b = "cgo" THEN cgoConstraint(s) ELSE puregoConstraint(s)
compiled(s) == {b \in Backends : constraint(b, s) /\ (importsC(b) => s.cgo)}
\* README: the engine a combination of settings is documented to select
documented(s) ==
    IF s.simba_purego THEN "purego"
    ELSE IF s.simba_cgo THEN "cgo"
    ELSE IF s.cgo THEN "cgo" ELSE "purego"

\* the symbols init resolves, in its order, and the variables that hold them
Symbols == <<"sum_u8", "is_ascii", "noop", "validate_u8_lut", "map_u8_lut",
             "validate_tag_inner">>
AddrVars == <<"sumAddr", "asciiAddr", "noopAddr", "lutAddr", "mapAddr", "tagAddr">>
GatewayOps == <<"SumU8", "IsASCII", "Noop", "AllBytesInSet", "MapBytes",
                "ValidateTagInner">>
IndexOf(seq, x) == CHOOSE i \in 1..Len(seq) : seq[i] = x
\* where the loaded library keeps a symbol; never the zero address
SymbolAddress(sym) == 4096 * IndexOf(Symbols, sym)
Unresolved == [v \in {AddrVars[i] : i \in 1..Len(AddrVars)} |-> 0]
Resolved == [v \in {AddrVars[i] : i \in 1..Len(AddrVars)} |->
                SymbolAddress(Symbols[IndexOf(AddrVars, v)])]
\* selectLib: the library file, or "" where it panics
selectLib(goos) ==
    CASE goos = "darwin" -> "libsimba.dylib"
      [] goos = "linux" -> "libsimba.so"
      [] OTHER -> ""

\* validate_tag_inner: 1 iff every byte is an inner tag character and no two
\* underscores are adjacent
tagMid(b) == (b >= 45 /\ b <= 58) \/ b = 95 \/ (b >= 97 /\ b <= 122)
validate_tag_inner_raw(d) ==
    IF /\ \A i \in 1..Len(d) : tagMid(d[i])
       /\ ~ \E i \in 1..(Len(d) - 1) : d[i] = 95 /\ d[i + 1] = 95
    THEN 1 ELSE 0

Fault == [ret |-> <<"fault">>, dst |-> <<>>]
GwRet(ret, dst) == [ret |-> ret, dst |-> dst]
\* a gateway operation that returns before its foreign call
returnsEarly(o, arg) == o # "Noop" /\ Len(arg) = 0
earlyReturn(o) ==
    CASE o = "SumU8" -> GwRet(RetU32(Zero32), <<>>)
      [] o = "MapBytes" -> GwRet(RetVoid, <<>>)
      [] OTHER -> GwRet(RetBool(TRUE), <<>>)
\* purego.SyscallN(target, ...) and the conversion of r1
SyscallN(target, o, arg) ==
    IF target # SymbolAddress(Symbols[IndexOf(GatewayOps, o)]) THEN Fault
    ELSE CASE o = "SumU8" -> GwRet(RetU32(sum_u8_raw(16, arg)), <<>>)
           [] o = "IsASCII" -> GwRet(RetBool(is_ascii_raw(16, arg) # 0), <<>>)
           [] o = "Noop" -> GwRet(RetVoid, <<>>)
           [] o = "AllBytesInSet" ->
                GwRet(RetBool(validate_u8_lut_raw(16, arg, asciiLUT) # 0), <<>>)
           [] o = "MapBytes" ->
                GwRet(RetVoid, map_u8_lut_raw(16, arg, Repeat(0, Len(arg)), lowerLUT))
           [] OTHER -> GwRet(RetBool(validate_tag_inner_raw(arg) # 0), <<>>)
\* the call run alone after a successful init
Alone(o, arg) ==
    IF returnsEarly(o, arg) THEN earlyReturn(o)
    ELSE SyscallN(SymbolAddress(Symbols[IndexOf(GatewayOps, o)]), o, arg)


Threads == {"t1", "t2"}
GwArgs == {<<>>, <<97, 200>>}
Envs == [goos : {"darwin", "linux", "windows"}, libOK : BOOLEAN,
         missing : {Symbols[i] : i \in 1..Len(Symbols)} \cup {"none"}]
\* the cgo backend is linked at build time: nothing of the environment is read
StaticEnv == [goos |-> "linux", libOK |-> TRUE, missing |-> "none"]
Fresh == [pc |-> "idle", op |-> "none", arg |-> <<>>, target |-> 0, out |-> Fault]

InitBackend ==
    /\ \E c \in BOOLEAN, tc \in BOOLEAN, tp \in BOOLEAN :
          backend = [pc |-> "source",
                     settings |-> [cgo |-> c, simba_cgo |-> tc, simba_purego |-> tp],
                     compiled |-> {}, env |-> StaticEnv,
                     initpc |-> "none", next |-> 0, initRuns |-> 0,
                     addr |-> Unresolved, thr |-> [t \in Threads |-> Fresh]]
    /\ op = "off" /\ data = <<>> /\ lut = "none" /\ needle = 0
    /\ init = Zero32 /\ mem0 = <<>> /\ res = NoRes
    /\ chunks = <<>> /\ init0 = Zero32 /\ running = Zero32
    /\ fz = FzOff /\ sumst = Off /\ sanity = Off /\ heap = Off
    /\ each = Off /\ comb = Off /\ tag = Off

BackendStep(b) ==
    /\ backend' = b
    /\ UNCHANGED <<op, data, lut, needle, init, mem0, res, chunks, init0, running, fz,
                   sumst, sanity, heap,
                   each, comb, tag>>

\* go build: the files whose constraints hold make up package ffi; with no
\* backend the gateway functions are undefined, with two they are redeclared
Build ==
    /\ backend.pc = "source"
    /\ BackendStep([backend EXCEPT
          !.compiled = compiled(backend.settings),
          !.pc = IF Cardinality(compiled(backend.settings)) = 1
                 THEN "binary" ELSE "buildfail"])

\* a start-up that lets main.main and its goroutines run while init is running
startProcess_mainFirst(b, env) ==
    IF "purego" \in b.compiled
    THEN [b EXCEPT !.pc = "main", !.env = env, !.initpc = "selectLib",
                   !.initRuns = @ + 1]
    ELSE [b EXCEPT !.pc = "main", !.env = env]

\* the runtime runs the init functions of package ffi, once, before main.main
startProcess(b, env) ==
    IF "purego" \in b.compiled
    THEN [b EXCEPT !.pc = "init", !.env = env, !.initpc = "selectLib",
                   !.initRuns = @ + 1]
    ELSE [b EXCEPT !.pc = "main", !.env = env]

ProcessStart ==
    /\ backend.pc = "binary"
    /\ \E env \in (IF "purego" \in backend.compiled THEN Envs ELSE {StaticEnv}) :
          BackendStep(startProcess(backend, env))

initPanics(b) == [b EXCEPT !.initpc = "panic", !.pc = "panicked"]

\* libPath := selectLib()
Init_selectLib ==
    /\ backend.initpc = "selectLib"
    /\ BackendStep(IF selectLib(backend.env.goos) = "" THEN initPanics(backend)
                   ELSE [backend EXCEPT !.initpc = "Dlopen"])

\* lib, err := purego.Dlopen(libPath, ...); if err != nil { panic }
Init_Dlopen ==
    /\ backend.initpc = "Dlopen"
    /\ BackendStep(IF ~backend.env.libOK THEN initPanics(backend)
                   ELSE [backend EXCEPT !.initpc = "Dlsym", !.next = 1])

\* xAddr, err = purego.Dlsym(lib, sym) without the check of err
init_Dlsym_ignoresErr(b) ==
    LET sym == Symbols[b.next]
        found == b.env.missing # sym
        b1 == [b EXCEPT !.addr[AddrVars[b.next]] =
                            IF found THEN SymbolAddress(sym) ELSE 0]
    IN  IF b.next = Len(Symbols) THEN [b1 EXCEPT !.initpc = "done", !.pc = "main"]
        ELSE [b1 EXCEPT !.next = @ + 1]

\* xAddr, err = purego.Dlsym(lib, sym); if err != nil { panic(err) }
init_Dlsym(b) ==
    LET sym == Symbols[b.next]
        found == b.env.missing # sym
        b1 == [b EXCEPT !.addr[AddrVars[b.next]] =
                            IF found THEN SymbolAddress(sym) ELSE 0]
    IN  IF ~found THEN initPanics(b1)
        ELSE IF b.next = Len(Symbols) THEN [b1 EXCEPT !.initpc = "done", !.pc = "main"]
        ELSE [b1 EXCEPT !.next = @ + 1]

Init_Dlsym ==
    /\ backend.initpc = "Dlsym"
    /\ BackendStep(init_Dlsym(backend))

\* the address a gateway operation hands to its foreign call
target(b, o) ==
    IF "purego" \in b.compiled THEN b.addr[AddrVars[IndexOf(GatewayOps, o)]]
    ELSE SymbolAddress(Symbols[IndexOf(GatewayOps, o)])

\* a thread enters a gateway operation: the early return, or the read of the
\* address variable and the start of the foreign call
GatewayCall ==
    /\ backend.pc = "main"
    /\ \E t \in Threads, i \in 1..Len(GatewayOps), arg \in GwArgs :
          LET o == GatewayOps[i] IN
          /\ backend.thr[t].pc = "idle"
          /\ o = "Noop" => arg = <<>>
          /\ BackendStep([backend EXCEPT !.thr[t] =
                IF returnsEarly(o, arg)
                THEN [pc |-> "idle", op |-> o, arg |-> arg, target |-> 0,
                      out |-> earlyReturn(o)]
                ELSE [pc |-> "syscall", op |-> o, arg |-> arg,
                      target |-> target(backend, o), out |-> Fault]])

\* the foreign call returns, and the operation drops its address variable
gatewayReturn_clearsAddr(b, t) ==
    LET c == b.thr[t] IN
    [b EXCEPT !.thr[t] = [c EXCEPT !.pc = "idle",
                                   !.out = SyscallN(c.target, c.op, c.arg)],
              !.addr[AddrVars[IndexOf(GatewayOps, c.op)]] = 0]

\* the foreign call returns: r1 is converted and handed to the caller
gatewayReturn(b, t) ==
    LET c == b.thr[t] IN
    [b EXCEPT !.thr[t] = [c EXCEPT !.pc = "idle",
                                   !.out = SyscallN(c.target, c.op, c.arg)]]

GatewayReturn ==
    \E t \in Threads :
       /\ backend.thr[t].pc = "syscall"
       /\ BackendStep(gatewayReturn(backend, t))

NextBackend ==
    \/ Build \/ ProcessStart
    \/ Init_selectLib \/ Init_Dlopen \/ Init_Dlsym
    \/ GatewayCall \/ GatewayReturn

SpecBackend == InitBackend /\ [][NextBackend]_vars

BuildDone == backend.pc # "off" /\ backend.pc # "source"
\* C13: every combination of cgo / simba_cgo / simba_purego compiles exactly
\* one backend: without a tag cgo iff cgo is enabled and purego otherwise,
\* simba_purego forces purego also with cgo enabled, simba_cgo forces cgo also
\* with cgo disabled.
C13_ExactlyOneBackend ==
    BuildDone => backend.compiled = {documented(backend.settings)}


Purego == backend.pc # "off" /\ "purego" \in backend.compiled
\* a thread has entered a gateway operation
Executed(t) == backend.thr[t] # Fresh
BadEnv(e) == selectLib(e.goos) = "" \/ ~e.libOK \/ e.missing # "none"
Started == backend.pc \in {"init", "main", "panicked"}

\* C14: in the purego backend an unsupported OS, a failed dlopen or a failed
\* lookup of any one symbol ends init in a panic and no gateway operation is
\* executed afterwards; whenever a gateway operation executes, every symbol
\* address has been resolved.
C14_InitFailureIsFatal ==
    Purego =>
        /\ (\E t \in Threads : Executed(t)) => backend.addr = Resolved
        /\ (Started /\ BadEnv(backend.env)) =>
              (backend.pc # "main" /\ \A t \in Threads : ~Executed(t))
        /\ backend.pc = "panicked" => \A t \in Threads : ~Executed(t)

\* the fifth lookup failed: init panicked with four addresses resolved, and
\* no thread has entered a gateway operation
C14_Witness ==
    /\ Purego /\ backend.pc = "panicked" /\ backend.env.missing = "map_u8_lut"
    /\ backend.addr["lutAddr"] # 0 /\ backend.addr["mapAddr"] = 0
    /\ \A t \in Threads : ~Executed(t)

\* C15: library open plus symbol resolution runs exactly once per process and
\* has completed before any gateway operation starts on any thread.
C15_InitOnceBeforeOps ==
    Purego =>
        /\ backend.initRuns <= 1
        /\ (\E t \in Threads : Executed(t)) =>
              (backend.initRuns = 1 /\ backend.initpc = "done")

\* two threads are inside foreign calls at once, after the one init
C15_Witness ==
    /\ Purego /\ backend.initRuns = 1 /\ backend.initpc = "done"
    /\ \A t \in Threads : backend.thr[t].pc = "syscall"

\* C16: after init, threads call gateway operations concurrently without
\* locks: the address variables keep the values init gave them, and under
\* every interleaving a call returns what it returns when run alone.
C16_ConcurrentCallsAsAlone ==
    (backend.pc # "off" /\ backend.pc = "main") =>
        /\ Purego => backend.addr = Resolved
        /\ \A t \in Threads :
              (Executed(t) /\ backend.thr[t].pc = "idle") =>
                  backend.thr[t].out = Alone(backend.thr[t].op, backend.thr[t].arg)

\* SumU8 has returned 97 + 200 on one thread while the other thread is still
\* inside the foreign call of MapBytes
C16_Witness ==
    /\ Purego /\ backend.pc = "main"
    /\ backend.thr["t1"].pc = "syscall" /\ backend.thr["t1"].op = "MapBytes"
    /\ backend.thr["t2"].pc = "idle" /\ backend.thr["t2"].op = "SumU8"
    /\ backend.thr["t2"].out = GwRet(RetU32(U32(0, 297)), <<>>)


-----------------------------------------------------------------------------
(* The trampoline-sanity harness.  A word is the sequence of its 16-bit     *)
(* limbs, most significant first: 4 limbs for uint64 and uintptr, 2 for     *)
(* uint32, 1 for uint8.                                                     *)

Limb == Pow2(16)
\* uint64(x)
Ext64(w) == [i \in 1..4 |-> IF i <= 4 - Len(w) THEN 0 ELSE w[i - (4 - Len(w))]]
Xor64(x, y) == [i \in 1..4 |-> Xor16(x[i], y[i])]
\* v * 0x100000001b3 on uint64: v * 0x1b3 + ((v * 0x100) << 32), modulo 2^64
fnvPrimeLo == 435
fnvPrimeHi == 256
MulPrime(v) ==
    LET c0 == v[4] * fnvPrimeLo
        c1 == (v[3] * fnvPrimeLo) + (c0 \div Limb)
        c2 == (v[2] * fnvPrimeLo) + (c1 \div Limb)
        c3 == (v[1] * fnvPrimeLo) + (c2 \div Limb)
        d0 == v[4] * fnvPrimeHi
        d1 == (v[3] * fnvPrimeHi) + (d0 \div Limb)
        s2 == (c2 % Limb) + (d0 % Limb)
        s3 == (c3 % Limb) + (d1 % Limb) + (s2 \div Limb)
    IN  <<s3 % Limb, s2 % Limb, c1 % Limb, c0 % Limb>>
\* h ^ (v * 0x100000001b3)
mix(h, v) == Xor64(h, MulPrime(v))
\* 0xcbf29ce484222325
fnvOffset == <<52210, 40164, 33826, 8997>>
\* x & 0x7fff...: the word without its top bit
ClearTop(w) == [w EXCEPT ![1] = @ % 32768]

refHash(a) ==
    LET h1 == mix(fnvOffset, a.ptr)
        h2 == mix(h1, a.length)
        h3 == mix(h2, Ext64(a.v32))
        h4 == mix(h3, Ext64(a.v8))
        h5 == mix(h4, a.v64)
        fb64 == ClearTop(a.f64bits)
        fb32 == Ext64(ClearTop(a.f32bits))
        h6 == mix(h5, fb64)
    IN  mix(h6, fb32)

\* the native side of the harness recomputes the same hash of what it receives
trampoline_sanity_raw(a) == refHash(a)

ArgNames == <<"ptr", "length", "v32", "v8", "v64", "f64bits", "f32bits">>
ArgWidth(f) ==
    CASE f \in {"ptr", "length", "v64", "f64bits"} -> 64
      [] f \in {"v32", "f32bits"} -> 32
      [] OTHER -> 8
\* w with bit k (0 = least significant) inverted
FlipBit(w, k) ==
    LET i == Len(w) - (k \div 16)
        p == Pow2(k % 16)
    IN  [w EXCEPT ![i] = IF (@ \div p) % 2 = 1 THEN @ - p ELSE @ + p]
Altered(a, f, k) == [a EXCEPT ![f] = FlipBit(@, k)]

PosInf64 == <<32752, 0, 0, 0>>
NegInf64 == <<65520, 0, 0, 0>>
NaN64 == <<32760, 0, 0, 1>>
PosInf32 == <<32640, 0>>
NegInf32 == <<65408, 0>>
NaN32 == <<32704, 0>>
MaxUint64 == <<65535, 65535, 65535, 65535>>
Zero64 == <<0, 0, 0, 0>>

ZeroArgs == [ptr |-> Zero64, length |-> Zero64, v32 |-> <<0, 0>>, v8 |-> <<0>>,
             v64 |-> Zero64, f64bits |-> Zero64, f32bits |-> <<0, 0>>]
\* &slice[0] of a 4-byte slice, and edge values of the test
EdgeArgs == [ptr |-> <<0, 192, 18, 57344>>, length |-> <<0, 0, 0, 4>>,
             v32 |-> <<57005, 48879>>, v8 |-> <<255>>, v64 |-> MaxUint64,
             f64bits |-> PosInf64, f32bits |-> NaN32]
HashVectors == {ZeroArgs, EdgeArgs}

InitHash ==
    /\ \E a \in HashVectors, i \in 1..Len(ArgNames) :
          \E k \in 0..(ArgWidth(ArgNames[i]) - 1) :
             sanity = [pc |-> "args", args |-> a, field |-> ArgNames[i], bit |-> k,
                       want |-> Zero64, got |-> Zero64]
    /\ op = "off" /\ data = <<>> /\ lut = "none" /\ needle = 0
    /\ init = Zero32 /\ mem0 = <<>> /\ res = NoRes
    /\ chunks = <<>> /\ init0 = Zero32 /\ running = Zero32
    /\ fz = FzOff /\ sumst = Off /\ backend = Off /\ heap = Off
    /\ each = Off /\ comb = Off /\ tag = Off

\* want := refHash(args) against got := the native hash of the arguments as a
\* trampoline that inverts one bit of one argument delivers them
HashAltered ==
    /\ sanity.pc = "args"
    /\ sanity' = [sanity EXCEPT
          !.pc = "hashed",
          !.want = refHash(sanity.args),
          !.got = trampoline_sanity_raw(Altered(sanity.args, sanity.field, sanity.bit))]
    /\ UNCHANGED <<op, data, lut, needle, init, mem0, res, chunks, init0, running, fz,
                   sumst, backend, heap,
                   each, comb, tag>>

NextHash == HashAltered

SpecHash == InitHash /\ [][NextHash]_vars

\* C17: refHash changes whenever any single bit of any one of its seven
\* arguments changes, so a trampoline that alters any bit of any argument
\* makes the Go-side hash differ from the native-side hash.
C17_EveryBitChangesHash ==
    sanity.pc = "hashed" => sanity.got # sanity.want


\* for i := 0; i < 2000; i++
iterations == 2000
\* what the seeded generator can hand out: Uint32, Intn(256), Uint64, and
\* Float64 / Float32, which lie in [0, 1) (0.0 and 0.5 here)
RngDraws ==
    {[v32 |-> <<0, 0>>, v8 |-> <<0>>, v64 |-> Zero64, f64 |-> Zero64, f32 |-> <<0, 0>>],
     [v32 |-> <<57005, 48879>>, v8 |-> <<255>>, v64 |-> <<4660, 22136, 39612, 57072>>,
      f64 |-> <<16352, 0, 0, 0>>, f32 |-> <<16128, 0>>]}
\* the argument vector of iteration i
sanityArgs(i, r) ==
    [ptr |-> IF i % 3 = 2 THEN EdgeArgs.ptr ELSE Zero64,
     length |-> IF i % 3 = 2 THEN <<0, 0, 0, 4>> ELSE Zero64,
     v32 |-> r.v32,
     v8 |-> r.v8,
     v64 |-> IF i % 5 = 0 THEN MaxUint64 ELSE r.v64,
     f64bits |-> IF i % 11 = 0 THEN PosInf64
                 ELSE IF i % 13 = 0 THEN NaN64 ELSE r.f64,
     f32bits |-> IF i % 17 = 0 THEN NegInf32
                 ELSE IF i % 19 = 0 THEN NaN32 ELSE r.f32]

\* exponent all ones and a non-zero mantissa
IsNaN64(w) == (w[1] % 32768) \div 16 = 2047 /\ <<w[1] % 16, w[2], w[3], w[4]>> # Zero64
IsNaN32(w) == (w[1] % 32768) \div 128 = 255 /\ <<w[1] % 128, w[2]>> # <<0, 0>>
\* the edge values an argument vector carries
Edges(a) ==
    {e \in {"nil/empty buffer", "non-empty buffer", "max uint64",
            "f64 +Inf", "f64 -Inf", "f64 NaN", "f32 +Inf", "f32 -Inf", "f32 NaN"} :
        CASE e = "nil/empty buffer" -> a.ptr = Zero64 /\ a.length = Zero64
          [] e = "non-empty buffer" -> a.ptr # Zero64 /\ a.length # Zero64
          [] e = "max uint64" -> a.v64 = MaxUint64
          [] e = "f64 +Inf" -> a.f64bits = PosInf64
          [] e = "f64 -Inf" -> a.f64bits = NegInf64
          [] e = "f64 NaN" -> IsNaN64(a.f64bits)
          [] e = "f32 +Inf" -> a.f32bits = PosInf32
          [] e = "f32 -Inf" -> a.f32bits = NegInf32
          [] OTHER -> IsNaN32(a.f32bits)}
RequiredEdges ==
    {"nil/empty buffer", "non-empty buffer", "max uint64",
     "f64 +Inf", "f64 -Inf", "f64 NaN", "f32 +Inf", "f32 -Inf", "f32 NaN"}

InitSanity ==
    /\ sanity = [pc |-> "loop", i |-> 0, args |-> ZeroArgs, seen |-> {}]
    /\ op = "off" /\ data = <<>> /\ lut = "none" /\ needle = 0
    /\ init = Zero32 /\ mem0 = <<>> /\ res = NoRes
    /\ chunks = <<>> /\ init0 = Zero32 /\ running = Zero32
    /\ fz = FzOff /\ sumst = Off /\ backend = Off /\ heap = Off
    /\ each = Off /\ comb = Off /\ tag = Off

\* one iteration of TestTrampolineSanity
SanityIteration ==
    /\ sanity.pc = "loop" /\ sanity.i < iterations
    /\ \E r \in RngDraws :
          LET a == sanityArgs(sanity.i, r) IN
          sanity' = [pc |-> IF trampoline_sanity_raw(a) # refHash(a) THEN "fatal"
                            ELSE "loop",
                     i |-> sanity.i + 1, args |-> a,
                     seen |-> sanity.seen \cup Edges(a)]
    /\ UNCHANGED <<op, data, lut, needle, init, mem0, res, chunks, init0, running, fz,
                   sumst, backend, heap,
                   each, comb, tag>>

SanityPassed ==
    /\ sanity.pc = "loop" /\ sanity.i = iterations
    /\ sanity' = [sanity EXCEPT !.pc = "passed"]
    /\ UNCHANGED <<op, data, lut, needle, init, mem0, res, chunks, init0, running, fz,
                   sumst, backend, heap,
                   each, comb, tag>>

NextSanity == SanityIteration \/ SanityPassed

SpecSanity == InitSanity /\ [][NextSanity]_vars

\* C20: the argument vectors of iterations 0..1999 of TestTrampolineSanity
\* contain a nil/empty buffer, a non-empty buffer, the maximum uint64, and for
\* f64 and for f32 a +Inf, a -Inf and a NaN bit pattern.
C20_EdgeValuesCovered ==
    sanity.pc = "passed" => RequiredEdges \subseteq sanity.seen


-----------------------------------------------------------------------------
(* Frame effects of the LUT operations.  src and dst are views (offset,     *)
(* length) of one byte buffer, so that they may overlap as Go slices may;   *)
(* the table is a 256-byte array of its own.                                *)

View(off, len) == [off |-> off, len |-> len]
\* the bytes a view shows
Bytes(buf, v) == [i \in 1..v.len |-> buf[v.off + i]]
\* the cells of the first k bytes of a view
Cells(v, k) == (v.off + 1)..(v.off + k)
Max(a, b) == IF a > b THEN a ELSE b

\* for i := 0; i < n; i++ { dst[i] = (*lut)[src[i]] }
RECURSIVE scalarMapLoop(_, _, _, _, _, _)
scalarMapLoop(buf, dst, src, t, i, n) ==
    IF i >= n THEN buf
    ELSE scalarMapLoop([buf EXCEPT ![dst.off + i + 1] = t[buf[src.off + i + 1]]],
                       dst, src, t, i + 1, n)

\* map_u8_lut on n bytes; for overlapping src and dst the kernel's order of
\* loads and stores is not fixed: byte by byte, or all loads first
kernelMap(buf, dst, src, t, n, order) ==
    IF order = "forward" THEN scalarMapLoop(buf, dst, src, t, 0, n)
    ELSE LET out == map_u8_lut_raw(64, Bytes(buf, View(src.off, n)),
                                   Bytes(buf, View(dst.off, n)), t)
         IN  [j \in 1..Len(buf) |->
                IF j \in Cells(dst, n) THEN out[j - dst.off] ELSE buf[j]]

\* variant: the scalar loop runs one byte past n where dst has room
heap_MapBytes_pastN(h, order) ==
    LET n == Min(h.src.len, h.dst.len)
        t == LUT(h.lut)
    IN  IF n = 0 THEN [h EXCEPT !.pc = "returned", !.ret = RetInt(0)]
        ELSE IF n < simdMapThreshold
             THEN [h EXCEPT !.pc = "returned", !.ret = RetInt(n),
                            !.buf = scalarMapLoop(h.buf, h.dst, h.src, t, 0,
                                                  Min(n + 1, h.dst.len))]
             ELSE [h EXCEPT !.pc = "returned", !.ret = RetInt(n),
                            !.buf = kernelMap(h.buf, h.dst, h.src, t, n, order)]

\* algo.MapBytes on the buffer
heap_MapBytes(h, order) ==
    LET n == Min(h.src.len, h.dst.len)
        t == LUT(h.lut)
    IN  IF n = 0 THEN [h EXCEPT !.pc = "returned", !.ret = RetInt(0)]
        ELSE IF n < simdMapThreshold
             THEN [h EXCEPT !.pc = "returned", !.ret = RetInt(n),
                            !.buf = scalarMapLoop(h.buf, h.dst, h.src, t, 0, n)]
             ELSE [h EXCEPT !.pc = "returned", !.ret = RetInt(n),
                            !.buf = kernelMap(h.buf, h.dst, h.src, t, n, order)]

\* algo.AllBytesInSet on the buffer: data and the table are only read
heap_AllBytesInSet(h) ==
    [h EXCEPT !.pc = "returned",
              !.ret = algo_AllBytesInSet(Bytes(h.buf, h.src), LUT(h.lut)).ret]

FrameLens == {0, 1, 3, simdMapThreshold - 1, simdMapThreshold, simdMapThreshold + 1}
\* src at the front of the buffer: 'A's ending in 0xC8; '*' behind it
FrameBuf(l, size) ==
    [j \in 1..size |-> IF j > l THEN 42 ELSE IF j = l THEN 200 ELSE 65]

InitFrame ==
    /\ \E l \in FrameLens, fn \in {"MapBytes", "AllBytesInSet"},
          name \in {"lower", "ascii"} :
          \E m \in (IF fn = "MapBytes" THEN {0, l - 1, l, l + 1} \cap Nat ELSE {0}),
             d \in (IF fn = "MapBytes" THEN {0, 1, l} ELSE {l}) :
             heap = [pc |-> "call", fn |-> fn, lut |-> name,
                     table |-> LUT(name), table0 |-> LUT(name),
                     src |-> View(0, l), dst |-> View(d, m),
                     buf |-> FrameBuf(l, Max(l, d + m) + 1),
                     buf0 |-> FrameBuf(l, Max(l, d + m) + 1),
                     ret |-> RetVoid]
    /\ op = "off" /\ data = <<>> /\ lut = "none" /\ needle = 0
    /\ init = Zero32 /\ mem0 = <<>> /\ res = NoRes
    /\ chunks = <<>> /\ init0 = Zero32 /\ running = Zero32
    /\ fz = FzOff /\ sumst = Off /\ backend = Off /\ sanity = Off
    /\ each = Off /\ comb = Off /\ tag = Off

Frame_MapBytes ==
    /\ heap.pc = "call" /\ heap.fn = "MapBytes"
    /\ \E order \in {"forward", "buffered"} : heap' = heap_MapBytes(heap, order)
    /\ UNCHANGED <<op, data, lut, needle, init, mem0, res, chunks, init0, running, fz,
                   sumst, backend, sanity,
                   each, comb, tag>>

Frame_AllBytesInSet ==
    /\ heap.pc = "call" /\ heap.fn = "AllBytesInSet"
    /\ heap' = heap_AllBytesInSet(heap)
    /\ UNCHANGED <<op, data, lut, needle, init, mem0, res, chunks, init0, running, fz,
                   sumst, backend, sanity,
                   each, comb, tag>>

NextFrame == Frame_MapBytes \/ Frame_AllBytesInSet

SpecFrame == InitFrame /\ [][NextFrame]_vars

FrameN == Min(heap.src.len, heap.dst.len)
\* every byte outside dst[0:n] is as it was before the call
OnlyDstWritten ==
    \A j \in 1..Len(heap.buf) :
       j \notin Cells(heap.dst, FrameN) => heap.buf[j] = heap.buf0[j]
SrcUnchanged == Bytes(heap.buf, heap.src) = Bytes(heap.buf0, heap.src)
Overlap == Cells(heap.src, heap.src.len) \cap Cells(heap.dst, FrameN) # {}

\* C18 as stated: for every call the table is unchanged; MapBytes leaves src
\* unchanged and writes only dst[0:n], n = min(len(src), len(dst)).
C18_Original ==
    (heap.pc # "off" /\ heap.pc = "returned") =>
        /\ heap.table = heap.table0
        /\ heap.fn = "AllBytesInSet" => heap.buf = heap.buf0
        /\ heap.fn = "MapBytes" => (SrcUnchanged /\ OnlyDstWritten)

\* C18: the table is never written; AllBytesInSet writes nothing; MapBytes
\* writes only the bytes dst[0:n], so dst[n:] and every byte of src outside
\* dst[0:n] keep their values, and src as a whole is unchanged when it does
\* not overlap dst[0:n].
C18_FrameOfLUTOps ==
    (heap.pc # "off" /\ heap.pc = "returned") =>
        /\ heap.table = heap.table0
        /\ heap.fn = "AllBytesInSet" => heap.buf = heap.buf0
        /\ heap.fn = "MapBytes" => (OnlyDstWritten /\ (~Overlap => SrcUnchanged))

\* the kernel path has mapped 64 bytes into a 65-byte dst behind src: dst[0:64]
\* is written, dst[64] and src are as before
C18_Witness ==
    /\ heap.pc # "off" /\ heap.pc = "returned" /\ heap.fn = "MapBytes"
    /\ heap.lut = "lower" /\ heap.src.len = simdMapThreshold
    /\ heap.dst = View(simdMapThreshold, simdMapThreshold + 1)
    /\ heap.buf[heap.dst.off + 1] = 97 /\ heap.buf[heap.dst.off + simdMapThreshold] = 200
    /\ heap.buf[heap.dst.off + simdMapThreshold + 1] = 42
    /\ SrcUnchanged /\ heap.ret = RetInt(simdMapThreshold)


-----------------------------------------------------------------------------
(* The cut-offs the README documents for the algo layer.                    *)

\* Generic helpers (SumU8, LUT ops): 16 B
docGenericCutoff == 16
\* ASCII check: 32 B
docASCIICutoff == 32
documentedCutoff(o) == IF o = "algo.IsASCII" THEN docASCIICutoff ELSE docGenericCutoff
DocumentedOps == {"algo.SumU8", "algo.IsASCII", "algo.AllBytesInSet", "algo.MapBytes"}

\* C19: SumU8, AllBytesInSet and MapBytes take the scalar path (no foreign
\* call) exactly when the input is shorter than 16 bytes, IsASCII exactly when
\* it is shorter than 32 bytes.  For MapBytes the input length is taken as
\* n = min(len(src), len(dst)), the number of bytes it maps.
C19_DocumentedCutoffs ==
    (op \in DocumentedOps /\ res.panic = "") =>
        LET L == IF op = "algo.MapBytes" THEN Min(Len(data), Len(mem0)) ELSE Len(data)
        IN  (L < documentedCutoff(op)) <=> (res.calls = <<>>)


-----------------------------------------------------------------------------
(* pkg/algo/chunk.go: Each64, Each32 and Each16, chained on the successive  *)
(* tails as TestEachHelpers chains them.  A slice is an offset and a length *)
(* into the caller's buffer; fn is recorded by the chunks it is handed.     *)

EachMaxLen == 200
LaneWidths == <<64, 32, 16>>

\* variant: for len(b) > w
eachCond_gt(len, w) == len > w
\* for len(b) >= w
eachCond(len, w) == len >= w

InitEach ==
    /\ \E n \in 0..EachMaxLen, s \in 1..Len(LaneWidths) :
          each = [pc |-> "loop", stage |-> s, first |-> s, n |-> n,
                  in |-> View(0, n), b |-> View(0, n),
                  fn |-> <<>>, rets |-> <<>>]
    /\ op = "off" /\ data = <<>> /\ lut = "none" /\ needle = 0
    /\ init = Zero32 /\ mem0 = <<>> /\ res = NoRes
    /\ chunks = <<>> /\ init0 = Zero32 /\ running = Zero32
    /\ fz = FzOff /\ sumst = Off /\ backend = Off /\ sanity = Off /\ heap = Off
    /\ comb = Off /\ tag = Off

\* fn(b[:w]); b = b[w:]
EachChunk ==
    /\ each.pc = "loop" /\ eachCond(each.b.len, LaneWidths[each.stage])
    /\ LET w == LaneWidths[each.stage] IN
       each' = [each EXCEPT !.fn = Append(@, [w |-> w, chunk |-> View(each.b.off, w)]),
                            !.b = View(each.b.off + w, each.b.len - w)]
    /\ UNCHANGED <<op, data, lut, needle, init, mem0, res, chunks, init0, running, fz,
                   sumst, backend, sanity, heap, comb, tag>>

\* return b; the tail is handed to the next narrower helper
EachReturn ==
    /\ each.pc = "loop" /\ ~eachCond(each.b.len, LaneWidths[each.stage])
    /\ each' = [each EXCEPT
          !.rets = Append(@, [w |-> LaneWidths[each.stage], in |-> each.in,
                              tail |-> each.b]),
          !.in = each.b,
          !.stage = IF @ < Len(LaneWidths) THEN @ + 1 ELSE @,
          !.pc = IF each.stage < Len(LaneWidths) THEN "loop" ELSE "done"]
    /\ UNCHANGED <<op, data, lut, needle, init, mem0, res, chunks, init0, running, fz,
                   sumst, backend, sanity, heap, comb, tag>>

NextEach == EachChunk \/ EachReturn

SpecEach == InitEach /\ [][NextEach]_vars /\ WF_vars(NextEach)

\* the chunks fn was handed by the helper of lane width w, in call order
ChunksOf(w) == SelectSeq(each.fn, LAMBDA c : c.w = w)
Count(w) == Len(ChunksOf(w))
\* one helper's contract, for a call that has returned
EachContract(r) ==
    LET cs == ChunksOf(r.w) IN
    /\ Len(cs) = r.in.len \div r.w
    /\ \A k \in 1..Len(cs) : cs[k].chunk = View(r.in.off + ((k - 1) * r.w), r.w)
    /\ r.tail = View(r.in.off + ((r.in.len \div r.w) * r.w), r.in.len % r.w)
EachReturned ==
    each.pc # "off" =>
        /\ \A i \in 1..Len(each.rets) : EachContract(each.rets[i])
        /\ (each.pc = "done" /\ each.first = 1) =>
              /\ Count(32) <= 1 /\ Count(16) <= 1 /\ each.b.len < 16
              /\ (64 * Count(64)) + (32 * Count(32)) + (16 * Count(16)) + each.b.len
                    = each.n

\* C21: Each<w>(b, fn) terminates having called fn exactly floor(n / w) times,
\* on consecutive w-byte chunks from the start, and returns the tail of
\* n mod w bytes; Each64, Each32, Each16 chained on the tails call the 32- and
\* 16-byte callbacks at most once, leave fewer than 16 bytes and conserve bytes.
C21_EachChunks == []EachReturned /\ <>(each.pc = "done")

\* the test's buffer of 100 bytes: one 64-byte chunk, one 32-byte chunk, no
\* 16-byte chunk and a tail of 4
C21_Witness ==
    /\ each.pc = "done" /\ each.first = 1 /\ each.n = 100
    /\ Count(64) = 1 /\ Count(32) = 1 /\ Count(16) = 0 /\ each.b = View(96, 4)


-----------------------------------------------------------------------------
(* combineGeneric run round by round: the two matrix buffers odd and even,  *)
(* the pointers pOdd and pEven that name them, and a log of the rounds.     *)

CombMaxLen == 20
\* len(buf) of the benchmarks next to the small lengths
CombLens == (-1..CombMaxLen) \cup {1024, 65535, 65536}
CombCrcs == {Zero32, U32(1, 2), U32(57005, 48879), U32(65535, 65535)}

\* variant: the early return mixes crc2 in
earlyReturn_mixed(crc1, crc2) == Xor32(crc1, crc2)
\* if length <= 0 { return crc1 }
earlyReturn_crc1(crc1, crc2) == crc1

\* variant: length-- instead of length >>= 1
halve_dec(length) == length - 1
\* length >>= 1
halve(length) == length \div 2

InitCombineLoop ==
    /\ \E l \in CombLens, c1 \in CombCrcs, c2 \in {Zero32, U32(4660, 22136)} :
          comb = [pc |-> "entry", len2 |-> l, length |-> l, in1 |-> c1, crc1 |-> c1,
                  crc2 |-> c2, odd |-> initOdd, even |-> initEven,
                  pOdd |-> "odd", pEven |-> "even", log |-> <<>>, ret |-> Zero32]
    /\ op = "off" /\ data = <<>> /\ lut = "none" /\ needle = 0
    /\ init = Zero32 /\ mem0 = <<>> /\ res = NoRes
    /\ chunks = <<>> /\ init0 = Zero32 /\ running = Zero32
    /\ fz = FzOff /\ sumst = Off /\ backend = Off /\ sanity = Off /\ heap = Off
    /\ each = Off /\ tag = Off

CombUnchanged ==
    UNCHANGED <<op, data, lut, needle, init, mem0, res, chunks, init0, running, fz,
                sumst, backend, sanity, heap, each, tag>>

\* the early return, or the seeding of odd and even from the table
CombineEnter ==
    /\ comb.pc = "entry"
    /\ comb' = IF comb.length <= 0
               THEN [comb EXCEPT !.pc = "returned",
                                 !.ret = earlyReturn_crc1(comb.crc1, comb.crc2)]
               ELSE LET poly == castagnoliTable IN
                    [comb EXCEPT !.pc = "loop",
                        !.odd = [initOdd EXCEPT ![0] = poly[16], ![1] = poly[32],
                                                ![2] = poly[64], ![3] = poly[128]],
                        !.even = [initEven EXCEPT ![0] = poly[64], ![1] = poly[128]]]
    /\ CombUnchanged

\* pEven.pow2(pOdd); if length&1 != 0 { crc1 = pEven.mul(crc1) }; length >>= 1;
\* pOdd, pEven = pEven, pOdd
CombineRound ==
    /\ comb.pc = "loop" /\ comb.length > 0
    /\ LET sq == gf2Mat_pow2(comb[comb.pOdd])
           digit == comb.length % 2
           c == IF digit # 0 THEN gf2Mat_mul(sq, comb.crc1) ELSE comb.crc1
       IN  comb' = [comb EXCEPT
                       ![comb.pEven] = sq,
                       !.crc1 = c,
                       !.length = halve(comb.length),
                       !.pOdd = comb.pEven, !.pEven = comb.pOdd,
                       !.log = Append(@, [dst |-> comb.pEven, src |-> comb.pOdd,
                                          applied |-> digit # 0])]
    /\ CombUnchanged

\* return crc1 ^ crc2
CombineReturn ==
    /\ comb.pc = "loop" /\ ~(comb.length > 0)
    /\ comb' = [comb EXCEPT !.pc = "returned", !.ret = Xor32(comb.crc1, comb.crc2)]
    /\ CombUnchanged

NextCombineLoop == CombineEnter \/ CombineRound \/ CombineReturn

SpecCombineLoop == InitCombineLoop /\ [][NextCombineLoop]_vars


\* floor(log2(n)) + 1 for n > 0: the number of binary digits of n
RECURSIVE BitLen(_)
BitLen(n) == IF n <= 0 THEN 0 ELSE 1 + BitLen(n \div 2)
\* binary digit k of n, k = 0 the least significant
Digit(n, k) == (n \div Pow2(k)) % 2
\* the operator "append n zero bytes" on the raw register, byte by byte
ZeroBytes(crc, n) == simpleUpdate(crc, Repeat(0, n), 1, n)

\* C22: for len2 > 0 combineGeneric ends after floor(log2(len2)) + 1 rounds,
\* one per binary digit of len2 from the least significant (after k rounds
\* length is len2 >> k); every round squares the operator once into the other
\* matrix buffer, and the operator is applied to crc1 in exactly the rounds
\* whose digit is 1.
C22_LogarithmicRounds ==
    (comb.pc # "off" /\ comb.len2 > 0) =>
        /\ Len(comb.log) <= BitLen(comb.len2)
        /\ comb.length = comb.len2 \div Pow2(Len(comb.log))
        /\ \A k \in 1..Len(comb.log) :
              /\ comb.log[k].applied = (Digit(comb.len2, k - 1) = 1)
              /\ comb.log[k].dst = (IF k % 2 = 1 THEN "even" ELSE "odd")
              /\ comb.log[k].src # comb.log[k].dst
        /\ comb.pc = "loop" => (comb.length > 0 <=> Len(comb.log) < BitLen(comb.len2))
        /\ comb.pc = "returned" => Len(comb.log) = BitLen(comb.len2)

\* 65536 bytes: 17 rounds, the operator applied in the last one only
C22_Witness ==
    /\ comb.pc = "returned" /\ comb.len2 = 65536 /\ Len(comb.log) = 17
    /\ comb.log[17].applied /\ \A k \in 1..16 : ~comb.log[k].applied
    /\ comb.in1 # Zero32

\* C26: for len2 <= 0 combineGeneric returns crc1 and crc2 is not mixed in; for
\* len2 > 0 the result is (operator of len2 zero bytes applied to crc1) XOR
\* crc2, so that combine(0, crc2, len2) = crc2.
C26_CombineIdentities ==
    (comb.pc # "off" /\ comb.pc = "returned") =>
        /\ comb.len2 <= 0 => (comb.ret = comb.in1 /\ comb.log = <<>>)
        /\ comb.len2 > 0 => comb.ret = Xor32(ZeroBytes(comb.in1, comb.len2), comb.crc2)
        /\ (comb.len2 > 0 /\ comb.in1 = Zero32) => comb.ret = comb.crc2

\* a zero first digest combined over 1024 bytes has returned the second digest
C26_Witness ==
    /\ comb.pc = "returned" /\ comb.len2 = 1024 /\ comb.in1 = Zero32
    /\ comb.crc2 = U32(4660, 22136) /\ comb.ret = comb.crc2


-----------------------------------------------------------------------------
(* gf2Mat.mul against the bit-by-bit product.                               *)

\* bit i of a 32-bit word, i = 0 the least significant
BitOf(vec, i) == IF i < 16 THEN (vec[2] \div Pow2(i)) % 2
                 ELSE (vec[1] \div Pow2(i - 16)) % 2
\* bit j of the XOR of the rows m[i] over the i in 0..31 with bit i of vec
\* set: the parity of the number of such rows that have bit j set
productBit(m, vec, j) ==
    Cardinality({i \in 0..31 : BitOf(vec, i) = 1 /\ BitOf(m[i], j) = 1}) % 2
RECURSIVE productHalf(_, _, _, _)
productHalf(m, vec, base, k) ==
    IF k > 15 THEN 0
    ELSE (productBit(m, vec, base + k) * Pow2(k)) + productHalf(m, vec, base, k + 1)
bitByBit(m, vec) == U32(productHalf(m, vec, 16, 0), productHalf(m, vec, 0, 0))
\* the row indices the loop of mul reads: m[i], m[i+1], m[i+2], m[i+3] in
\* every iteration it runs
RECURSIVE mulReads(_, _)
mulReads(vec, i) ==
    IF vec = Zero32 THEN {}
    ELSE {i, i + 1, i + 2, i + 3} \cup mulReads(Shr4(vec), i + 4)

seededOdd ==
    [initOdd EXCEPT ![0] = castagnoliTable[16], ![1] = castagnoliTable[32],
                    ![2] = castagnoliTable[64], ![3] = castagnoliTable[128]]
\* the operators combineGeneric multiplies by, and matrices with no structure
MulMat(name) ==
    CASE name = "odd" -> seededOdd
      [] name = "byte" -> gf2Mat_pow2(seededOdd)
      [] name = "identity" -> [n \in 0..31 |-> Bit32(n)]
      [] name = "ones" -> [n \in 0..31 |-> U32(65535, 65535)]
      [] OTHER -> [n \in 0..31 |-> U32((n * 2049) + 1, 65535 - (n * 77))]
MulMats == {"odd", "byte", "identity", "ones", "ramp"}
MulVecs == {Bit32(k) : k \in 0..31}
           \cup {Zero32, U32(65535, 65535), U32(57005, 48879), U32(1, 2),
                 U32(32768, 1), U32(0, 15), U32(61440, 0)}

InitMul ==
    /\ \E name \in MulMats, vec \in MulVecs :
          comb = [pc |-> "mul", m |-> name, vec |-> vec, sum |-> Zero32,
                  reads |-> {}]
    /\ op = "off" /\ data = <<>> /\ lut = "none" /\ needle = 0
    /\ init = Zero32 /\ mem0 = <<>> /\ res = NoRes
    /\ chunks = <<>> /\ init0 = Zero32 /\ running = Zero32
    /\ fz = FzOff /\ sumst = Off /\ backend = Off /\ sanity = Off /\ heap = Off
    /\ each = Off /\ tag = Off

\* sum := m.mul(vec)
Mul ==
    /\ comb.pc = "mul"
    /\ comb' = [comb EXCEPT !.pc = "product",
                            !.sum = gf2Mat_mul(MulMat(comb.m), comb.vec),
                            !.reads = mulReads(comb.vec, 0)]
    /\ CombUnchanged

NextMul == Mul

SpecMul == InitMul /\ [][NextMul]_vars

\* C23: m.mul(vec) is the XOR of the rows m[i] over exactly the i in 0..31
\* whose bit i of vec is 1 (0 for vec = 0), and the loop, four bits a step
\* with its exit on vec = 0, reads rows 0..31 only.
C23_MulIsBitByBit ==
    (comb.pc # "off" /\ comb.pc = "product") =>
        /\ comb.sum = bitByBit(MulMat(comb.m), comb.vec)
        /\ comb.reads \subseteq 0..31
        /\ comb.vec = Zero32 => (comb.sum = Zero32 /\ comb.reads = {})

\* bit 31 alone: the loop runs all eight steps, reads up to row 31 and
\* returns row 31
C23_Witness ==
    /\ comb.pc = "product" /\ comb.m = "ramp" /\ comb.vec = Bit32(31)
    /\ comb.reads = 0..31 /\ comb.sum = MulMat("ramp")[31]


-----------------------------------------------------------------------------
(* Lane widths of the kernels reached through the algo layer.               *)

\* every kernel call of the finished call was on at least one full lane
FullLane == \A k \in 1..Len(res.calls) : res.calls[k].w <= res.calls[k].n

\* C24 (as stated): for every algo operation and every length that reaches
\* the intrinsics dispatcher, the lane width w of the kernel called is <= n.
C24_Original == (op \in AlgoOps /\ res.calls # <<>>) => FullLane

\* C24 (amended): the same for every algo operation other than SumU8, and for
\* SumU8 from 32 bytes on; algo.SumU8 on 16..31 bytes calls the 32-lane kernel.
C24_LaneWithinInput ==
    (op \in AlgoOps /\ res.calls # <<>>) =>
        IF op = "algo.SumU8" /\ Len(data) < 32
        THEN Len(data) >= simdThreshold /\ Len(res.calls) = 1
             /\ res.calls[1].w = 32 /\ res.calls[1].n = Len(data)
        ELSE FullLane

\* algo.SumU8 on 16 bytes has called the 32-lane kernel
C24_Witness ==
    /\ op = "algo.SumU8" /\ Len(data) = simdThreshold
    /\ Len(res.calls) = 1 /\ res.calls[1].w = 32 /\ res.calls[1].n = 16


-----------------------------------------------------------------------------
(* Folding chunk digests: crc32_bench_test.go, BenchmarkSecureCRC32.        *)

AssocMaxLen == 4
AssocLens == 1..AssocMaxLen
AssocCrcs == {U32(57005, 48879), U32(65535, 65535)}

combine(crc1, crc2, len2) == combineGeneric(castagnoliTable, crc1, crc2, len2)

\* three adjacent buffers with digests a, b, c; the last two of lb and lc bytes
InitAssoc ==
    /\ \E a \in CombCrcs, b \in AssocCrcs, c \in AssocCrcs,
          lb \in AssocLens, lc \in AssocLens :
          comb = [pc |-> "start", a |-> a, b |-> b, c |-> c, lb |-> lb, lc |-> lc,
                  acc |-> a, folded |-> 0, tail |-> Zero32, grouped |-> Zero32]
    /\ op = "off" /\ data = <<>> /\ lut = "none" /\ needle = 0
    /\ init = Zero32 /\ mem0 = <<>> /\ res = NoRes
    /\ chunks = <<>> /\ init0 = Zero32 /\ running = Zero32
    /\ fz = FzOff /\ sumst = Off /\ backend = Off /\ sanity = Off /\ heap = Off
    /\ each = Off /\ tag = Off

\* crc = combine(crc, chunkCrc, len(chunk)), one chunk per step, left to right
AssocFold ==
    /\ comb.pc \in {"start", "folding"} /\ comb.folded < 2
    /\ LET d == IF comb.folded = 0 THEN comb.b ELSE comb.c
           l == IF comb.folded = 0 THEN comb.lb ELSE comb.lc
       IN  comb' = [comb EXCEPT !.pc = "folding", !.folded = @ + 1,
                                !.acc = combine(comb.acc, d, l)]
    /\ CombUnchanged

\* the other grouping: the last two chunks are combined first
AssocGroupTail ==
    /\ comb.pc = "folding" /\ comb.folded = 2
    /\ comb' = [comb EXCEPT !.pc = "tail",
                            !.tail = combine(comb.b, comb.c, comb.lc)]
    /\ CombUnchanged

AssocGroup ==
    /\ comb.pc = "tail"
    /\ comb' = [comb EXCEPT !.pc = "grouped",
                            !.grouped = combine(comb.a, comb.tail, comb.lb + comb.lc)]
    /\ CombUnchanged

NextAssoc == AssocFold \/ AssocGroupTail \/ AssocGroup

SpecAssoc == InitAssoc /\ [][NextAssoc]_vars

\* C25: combine(combine(a, b, lb), c, lc) = combine(a, combine(b, c, lc), lb + lc)
\* for all digests a, b, c and lengths lb, lc >= 1: the left-to-right fold of
\* the chunk digests equals the other grouping.
C25_CombineAssociative ==
    comb.pc = "grouped" => comb.acc = comb.grouped

\* both groupings computed for non-zero digests, the combined length crossing
\* a power of two (3 + 2 = 5 bytes)
C25_Witness ==
    /\ comb.pc = "grouped" /\ comb.lb = 3 /\ comb.lc = 2
    /\ comb.a = U32(57005, 48879) /\ comb.b = U32(65535, 65535)
    /\ comb.c = U32(57005, 48879)
    /\ comb.acc = comb.grouped /\ comb.acc # comb.tail


-----------------------------------------------------------------------------
(* The trampoline-sanity harness against a trampoline that loads two        *)
(* arguments from each other's registers or stack offsets.                  *)

\* the low bits of word w as a word of the width of argument f
Conv(w, f) ==
    LET x == Ext64(w)
    IN  CASE ArgWidth(f) = 64 -> x
          [] ArgWidth(f) = 32 -> <<x[3], x[4]>>
          [] OTHER -> <<x[4] % 256>>

\* the arguments as the native side receives them when f and g are exchanged
Swapped(a, f, g) == [a EXCEPT ![f] = Conv(a[g], f), ![g] = Conv(a[f], g)]

\* small distinct values, every one of which fits every position
SmallArgs == [ptr |-> <<0, 0, 0, 1>>, length |-> <<0, 0, 0, 2>>, v32 |-> <<0, 3>>,
              v8 |-> <<4>>, v64 |-> <<0, 0, 0, 5>>, f64bits |-> <<0, 0, 0, 6>>,
              f32bits |-> <<0, 7>>]
SwapVectors == {ZeroArgs, EdgeArgs, SmallArgs}

InitSwap ==
    /\ \E a \in SwapVectors, i \in 1..Len(ArgNames), j \in 1..Len(ArgNames) :
          /\ i < j
          /\ sanity = [pc |-> "args", args |-> a, f |-> ArgNames[i], g |-> ArgNames[j],
                       want |-> Zero64, got |-> Zero64]
    /\ op = "off" /\ data = <<>> /\ lut = "none" /\ needle = 0
    /\ init = Zero32 /\ mem0 = <<>> /\ res = NoRes
    /\ chunks = <<>> /\ init0 = Zero32 /\ running = Zero32
    /\ fz = FzOff /\ sumst = Off /\ backend = Off /\ heap = Off
    /\ each = Off /\ comb = Off /\ tag = Off

\* want := refHash(args) against got := the native hash of the arguments with
\* two positions exchanged
HashSwapped ==
    /\ sanity.pc = "args"
    /\ sanity' = [sanity EXCEPT
          !.pc = "hashed",
          !.want = refHash(sanity.args),
          !.got = trampoline_sanity_raw(Swapped(sanity.args, sanity.f, sanity.g))]
    /\ UNCHANGED <<op, data, lut, needle, init, mem0, res, chunks, init0, running, fz,
                   sumst, backend, heap, each, comb, tag>>

NextSwap == HashSwapped

SpecSwap == InitSwap /\ [][NextSwap]_vars

\* the two positions carry different values, each of which the other position
\* can carry (for the float bit patterns: with the sign bit clear)
Carried(a, f) == IF f \in {"f64bits", "f32bits"} THEN ClearTop(a[f]) ELSE a[f]
TrueExchange ==
    LET a == sanity.args
        s == Swapped(a, sanity.f, sanity.g)
    IN  /\ Ext64(a[sanity.f]) # Ext64(a[sanity.g])
        /\ Ext64(s[sanity.f]) = Ext64(a[sanity.g])
        /\ Ext64(s[sanity.g]) = Ext64(a[sanity.f])
        /\ Carried(a, sanity.f) = a[sanity.f]
        /\ Carried(a, sanity.g) = a[sanity.g]

\* C27: exchanging the values carried by two different argument positions
\* yields a different reference hash whenever the two values differ, so a
\* trampoline that loads arguments from each other's places cannot produce a
\* matching hash.
C27_SwapChangesHash ==
    (sanity.pc = "hashed" /\ TrueExchange) => sanity.got # sanity.want

\* ptr and length of the 4-byte slice exchanged
C27_PtrLenExchanged ==
    /\ sanity.pc = "hashed" /\ sanity.args = EdgeArgs
    /\ sanity.f = "ptr" /\ sanity.g = "length" /\ TrueExchange
C27_PtrLenDetected == C27_PtrLenExchanged => sanity.got # sanity.want


-----------------------------------------------------------------------------
(* pkg/algo: the files that declare simdThreshold, and the build that puts  *)
(* the ones whose constraints hold into package algo.                       *)

ThresholdFiles == {"threshold_cgo.go", "threshold_nocgo.go", "threshold_purego.go"}
\* //go:build cgo;  no constraint;  //go:build !cgo
thresholdConstraint(f, s) ==
    CASE f = "threshold_cgo.go" -> s.cgo
      [] f = "threshold_purego.go" -> ~s.cgo
      [] OTHER -> TRUE
\* const simdThreshold = ...
thresholdValue(f) ==
    CASE f = "threshold_cgo.go" -> 64
      [] f = "threshold_purego.go" -> 256
      [] OTHER -> simdThreshold
\* the source trees: the named files of pkg/algo, the same with the cgo file,
\* and the pair of files docs/chat_context.md describes
Trees == {{"threshold_nocgo.go", "threshold_purego.go"},
          ThresholdFiles,
          {"threshold_cgo.go", "threshold_purego.go"}}
declared(tree, s) == {f \in tree : thresholdConstraint(f, s)}
\* lengths around the values
ThresholdLens == {15, 16, 63, 64, 255, 256}

InitThreshold ==
    /\ \E c \in BOOLEAN, tc \in BOOLEAN, tp \in BOOLEAN, tr \in Trees :
          backend = [pc |-> "source", tree |-> tr,
                     settings |-> [cgo |-> c, simba_cgo |-> tc, simba_purego |-> tp],
                     compiled |-> {}, declared |-> {}, n |-> 0, path |-> "none"]
    /\ op = "off" /\ data = <<>> /\ lut = "none" /\ needle = 0
    /\ init = Zero32 /\ mem0 = <<>> /\ res = NoRes
    /\ chunks = <<>> /\ init0 = Zero32 /\ running = Zero32
    /\ fz = FzOff /\ sumst = Off /\ sanity = Off /\ heap = Off
    /\ each = Off /\ comb = Off /\ tag = Off

\* go build ./internal/ffi: the backend files whose constraints hold
BuildFfi ==
    /\ backend.pc = "source"
    /\ BackendStep([backend EXCEPT !.pc = "ffi",
                                   !.compiled = compiled(backend.settings)])

\* go build ./pkg/algo: one declaration of simdThreshold compiles, none or two
\* do not
BuildAlgo ==
    /\ backend.pc = "ffi"
    /\ LET d == declared(backend.tree, backend.settings)
       IN  BackendStep([backend EXCEPT
              !.declared = d,
              !.pc = IF Cardinality(d) = 1 THEN "built" ELSE "buildfail"])

\* algo.SumU8 on n bytes: if len(data) < simdThreshold { scalar } else kernel
SelectPath ==
    /\ backend.pc = "built"
    /\ \E n \in ThresholdLens :
          LET t == thresholdValue(CHOOSE f \in backend.declared : TRUE)
          IN  BackendStep([backend EXCEPT
                 !.pc = "called", !.n = n,
                 !.path = IF n < t THEN "scalar" ELSE "simd"])

NextThreshold == BuildFfi \/ BuildAlgo \/ SelectPath

SpecThreshold == InitThreshold /\ [][NextThreshold]_vars

\* the file written for a backend: threshold_purego.go for purego; for cgo
\* threshold_cgo.go, and the unconstrained file in a tree without it
tunedFile(b, tree) ==
    IF b = "purego" THEN "threshold_purego.go"
    ELSE IF "threshold_cgo.go" \in tree THEN "threshold_cgo.go"
    ELSE "threshold_nocgo.go"
AlgoBuilt == backend.pc \in {"built", "buildfail", "called"}

\* C28: in every build configuration exactly one value of simdThreshold is in
\* force, and it is the one tuned for the backend active in that configuration:
\* 256 whenever the purego backend is selected, the cgo value whenever the cgo
\* backend is.
C28_OneTunedThreshold ==
    AlgoBuilt =>
        /\ Cardinality(backend.declared) = 1
        /\ \A b \in backend.compiled :
              backend.declared = {tunedFile(b, backend.tree)}

\* the named files alone, cgo disabled, no tag: purego is the one backend and
\* simdThreshold is declared twice
C28_PuregoRedeclared ==
    /\ backend.pc = "buildfail"
    /\ backend.tree = {"threshold_nocgo.go", "threshold_purego.go"}
    /\ backend.settings = [cgo |-> FALSE, simba_cgo |-> FALSE, simba_purego |-> FALSE]
    /\ backend.compiled = {"purego"}
    /\ backend.declared = {"threshold_nocgo.go", "threshold_purego.go"}
C28_PuregoNotRedeclared == ~C28_PuregoRedeclared


-----------------------------------------------------------------------------
(* pkg/algo: the tag validator and its scalar reference.                    *)

maxTagLength == 200
simdTagThreshold == 64
TagOver == 1

\* scalarStart: a-z and ':'
scalarStart(b) == (b >= 97 /\ b <= 122) \/ b = 58
\* scalarMid: a-z, 0-9, ':', '.', '/', '-', '_'
scalarMid(b) ==
    \/ (b >= 97 /\ b <= 122) \/ (b >= 48 /\ b <= 57)
    \/ b \in {58, 46, 47, 45, 95}

ffi_ValidateTagInner(d) == IF Len(d) = 0 THEN TRUE ELSE validate_tag_inner_raw(d) # 0

\* for i := 1; i < l-1; i++ { if !scalarMid[c] || (c == '_' && bytes[i-1] == '_')
\* { return false } }, positions counted from 1 here
scalarMidLoop(t) ==
    \A i \in 2..(Len(t) - 1) :
        ~(~scalarMid(t[i]) \/ (t[i] = 95 /\ t[i - 1] = 95))

ValidateTagASCII(t) ==
    LET l == Len(t)
        mid == SubSeq(t, 2, l - 1)
    IN  CASE l = 0 \/ l > maxTagLength -> FALSE
          [] OTHER ->
             IF ~scalarStart(t[1]) THEN FALSE
             ELSE IF l = 1 THEN TRUE
             ELSE IF t[l] = 95 THEN FALSE
             ELSE IF Len(mid) >= simdTagThreshold
                  THEN IF ~ffi_ValidateTagInner(mid) THEN FALSE ELSE TRUE
             ELSE IF ~scalarMidLoop(t) THEN FALSE
             ELSE scalarMid(t[l])

validateTagScalar(t) ==
    LET l == Len(t)
    IN  CASE l = 0 \/ l > maxTagLength -> FALSE
          [] OTHER ->
             IF ~scalarStart(t[1]) THEN FALSE
             ELSE IF l = 1 THEN TRUE
             ELSE IF t[l] = 95 THEN FALSE
             ELSE IF ~scalarMidLoop(t) THEN FALSE
             ELSE scalarMid(t[l])

\* tags: lengths around 0, around the vector cut-off (64 inner bytes) and
\* around the limit; first and last byte and the inner bytes in and out of the
\* allowed sets
TagLens ==
    (0..3) \cup ((simdTagThreshold + 1)..(simdTagThreshold + 3))
           \cup ((maxTagLength - 1)..(maxTagLength + TagOver))
TagEnds == {97, 58, 48, 95, 65}
TagPatterns == {"plain", "under", "dunder", "upper", "lateDunder"}
MakeTag(l, first, pat, last) ==
    [i \in 1..l |->
        IF i = 1 THEN first
        ELSE IF i = l THEN last
        ELSE CASE pat = "under" /\ i = 2 -> 95
               [] pat = "dunder" /\ i \in {2, 3} -> 95
               [] pat = "upper" /\ i = 2 -> 65
               [] pat = "lateDunder" /\ i \in {l - 2, l - 1} -> 95
               [] OTHER -> 97]

TagUnchanged ==
    UNCHANGED <<op, data, lut, needle, init, mem0, res, chunks, init0, running, fz,
                sumst, backend, sanity, heap, each, comb>>

InitTag ==
    /\ \E l \in TagLens, first \in TagEnds, pat \in TagPatterns, last \in TagEnds :
          tag = [pc |-> "input", t |-> MakeTag(l, first, pat, last),
                 got |-> "none", want |-> "none"]
    /\ op = "off" /\ data = <<>> /\ lut = "none" /\ needle = 0
    /\ init = Zero32 /\ mem0 = <<>> /\ res = NoRes
    /\ chunks = <<>> /\ init0 = Zero32 /\ running = Zero32
    /\ fz = FzOff /\ sumst = Off /\ backend = Off /\ sanity = Off /\ heap = Off
    /\ each = Off /\ comb = Off

Tag_ValidateTagASCII ==
    /\ tag.pc = "input"
    /\ tag' = [tag EXCEPT !.pc = "validated", !.got = ValidateTagASCII(tag.t)]
    /\ TagUnchanged

Tag_validateTagScalar ==
    /\ tag.pc = "validated"
    /\ tag' = [tag EXCEPT !.pc = "compared", !.want = validateTagScalar(tag.t)]
    /\ TagUnchanged

NextTag == Tag_ValidateTagASCII \/ Tag_validateTagScalar

SpecTag == InitTag /\ [][NextTag]_vars

\* the rules: 1..200 bytes, first byte a-z or ':', every later byte allowed,
\* no "__", no trailing '_'
TagRules(t) ==
    /\ Len(t) >= 1 /\ Len(t) <= maxTagLength
    /\ scalarStart(t[1])
    /\ \A i \in 2..Len(t) : scalarMid(t[i])
    /\ ~ \E i \in 1..(Len(t) - 1) : t[i] = 95 /\ t[i + 1] = 95
    /\ t[Len(t)] # 95

\* C29: for every tag (length 0 to beyond 200) ValidateTagASCII returns the
\* verdict of validateTagScalar, and returns true only for tags that obey the
\* rules, the last byte included.
C29_ValidatorsAgree ==
    tag.pc = "compared" =>
        /\ tag.got = tag.want
        /\ (tag.got = TRUE => TagRules(tag.t))

\* the scalar reference alone returns true exactly for the tags that obey the
\* rules
C29_ScalarFollowsRules ==
    tag.pc = "compared" => (tag.want = TRUE <=> TagRules(tag.t))
\* the two validators differ only on the vector path and only in the last byte
C29_DifferOnlyInLastByte ==
    (tag.pc = "compared" /\ tag.got # tag.want) =>
        /\ Len(tag.t) - 2 >= simdTagThreshold
        /\ ~scalarMid(tag.t[Len(tag.t)])
        /\ tag.got = TRUE /\ tag.want = FALSE

=============================================================================
